---- MODULE Spec2Model ----
(***************************************************************************)
(* A model of crates/constraint_graph/src/builder.rs: the                  *)
(* ConstraintGraphBuilder, its arenas and index maps, and its construction *)
(* operations.  Ids are the 0-based positions of a DenseMap; a DenseMap is *)
(* a sequence, so the entry of id i is seq[i + 1].  The evaluator of the   *)
(* built graph is modelled from section 4.5 of the specification.          *)
(* A second part models crates/router/src/db/merchant_key_store.rs: the    *)
(* MockDb implementation of MerchantKeyStoreInterface.  A third part       *)
(* models crates/router/src/db/cache.rs: a get_or_populate call running    *)
(* concurrently with a redact_cache call on one cache key, and a task      *)
(* calling publish_and_redact.  A fourth part models the process tracker   *)
(* workflows of crates/router/src/workflows/payment_method_status_update.rs*)
(* and of crates/router/src/core/payment_methods/vault.rs, with the        *)
(* temp locker entry of one lookup key.                                    *)
(***************************************************************************)
EXTENDS Integers, Sequences, FiniteSets, TLC

\* ------------------------------------------------------------- bounds
\* The domain, node and edge arenas together hold at most MaxEntries entries.
MaxEntries == 3
\* Member lists given to the aggregator constructors have at most MaxMembers members.
MaxMembers == 2
\* The graphs that are evaluated hold at most MaxEvalNodes nodes, of which at
\* most MaxEvalAggregators are ALL or ANY aggregators, and MaxEvalEdges edges.
MaxEvalNodes == 3
MaxEvalAggregators == 2
MaxEvalEdges == 2
\* The merchant key store is called with MaxMerchants merchant ids.
MaxMerchants == 2
\* One task makes at most MaxGetCalls get_or_populate calls and another at most
\* MaxRedactCalls redact_cache calls on the cache key.
MaxGetCalls == 2
MaxRedactCalls == 2
\* A third task makes at most MaxPublishCalls publish_and_redact or
\* publish_and_redact_multiple calls.
MaxPublishCalls == 2
\* The number of retries the delay table of PaymentMethodsPTMapping covers.
MaxDelayCount == 3
\* consts::LOCKER_REDIS_EXPIRY_SECONDS, in ticks of the model's clock.
LockerExpiry == 2

\* ------------------------------------------------------------- inputs
Strengths == {"Strong", "Weak"}
Relations == {"Positive", "Negative"}

DomainIdentifiers == {"d1", "d2"}
DomainDescriptions == {"desc A", "desc B"}

\* Values of the caller's type V: a comparison key and a payload.
Vs == {<<"a", 1>>, <<"a", 2>>, <<"b", 1>>}
get_key(v) == v[1]

\* NodeValue<V>: a bare key or a full value.
NodeValues == {[tag |-> "Value", v |-> <<"a", 1>>], [tag |-> "Key", v |-> <<"b", 0>>]}

\* The (info, metadata, domain identifiers) a node-creating call is given.
Attachments ==
    { [info |-> "None", metadata |-> "None", domains |-> << >>],
      [info |-> "info1", metadata |-> "meta1", domains |-> <<"d1">>] }

\* Value lists given to make_in_aggregator.
InValueLists ==
    { << >>, << <<"a", 1>>, <<"a", 2>> >>,
      << <<"a", 1>>, <<"a", 1>> >>, << <<"a", 1>>, <<"b", 1>> >> }

\* The (relation, strength) of the members of an aggregator, by position.
MemberLabels ==
    { [i \in 1..MaxMembers |-> <<"Positive", "Strong">>],
      [i \in 1..MaxMembers |-> IF i = 1 THEN <<"Negative", "Weak">> ELSE <<"Positive", "Strong">>] }

\* ------------------------------------------------------------- results
Ok(id) == [id |-> id, err |-> "none"]
Err(e) == [id |-> -1, err |-> e]
IsOk(res) == res.err = "none"

\* ------------------------------------------------------------- DenseMap
Push(seq, x) == Append(seq, x)
NextId(seq) == Len(seq)
ContainsKey(seq, id) == id \in 0..(Len(seq) - 1)
Get(seq, id) == seq[id + 1]
Ids(seq) == 0..(Len(seq) - 1)

\* FxHashMap insert: the key's entry is set, the others are kept.
MapInsert(m, k, v) == [x \in (DOMAIN m) \cup {k} |-> IF x = k THEN v ELSE m[x]]
EmptyMap == << >>

\* Node::new: a node of the type and domains given, without edges.
NodeNew(node_type, domain_ids) ==
    [node_type |-> node_type, domain_ids |-> domain_ids, preds |-> << >>, succs |-> << >>]

ValueType(value) == [tag |-> "Value", value |-> value, values |-> {}]
AllAggregatorType == [tag |-> "AllAggregator", value |-> "none", values |-> {}]
AnyAggregatorType == [tag |-> "AnyAggregator", value |-> "none", values |-> {}]
InAggregatorType(values) == [tag |-> "InAggregator", value |-> "none", values |-> values]

\* ------------------------------------------------------------- builder
\* ConstraintGraphBuilder::new
new ==
    [ domain |-> << >>,
      nodes |-> << >>,
      edges |-> << >>,
      domain_identifier_map |-> EmptyMap,
      value_map |-> EmptyMap,
      edges_map |-> EmptyMap,
      node_info |-> << >>,
      node_metadata |-> << >> ]

\* A call's outcome: the builder after the call and the value returned.
Out(B, res) == [b |-> B, res |-> res]

\* ensure_node_exists
ensure_node_exists(B, id) ==
    IF ContainsKey(B.nodes, id) THEN Ok(0) ELSE Err("NodeNotFound")

\* The loop resolving domain identifiers: the ids in order, or DomainNotFound at
\* the first identifier that is not registered.
resolve_domains(B, idents) ==
    IF \A i \in 1..Len(idents) : idents[i] \in DOMAIN B.domain_identifier_map
    THEN [ok |-> TRUE, ids |-> [i \in 1..Len(idents) |-> B.domain_identifier_map[idents[i]]]]
    ELSE [ok |-> FALSE, ids |-> << >>]

\* make_domain that registers the identifier again when it is already known.
make_domain_always_push(B, domain_identifier, domain_description) ==
    LET domain_id == NextId(B.domain)
    IN  Out([B EXCEPT
               !.domain = Push(@, [domain_identifier |-> domain_identifier,
                                   domain_description |-> domain_description]),
               !.domain_identifier_map = MapInsert(@, domain_identifier, domain_id)],
            Ok(domain_id))

\* make_domain
make_domain(B, domain_identifier, domain_description) ==
    IF domain_identifier \in DOMAIN B.domain_identifier_map
    THEN Out(B, Ok(B.domain_identifier_map[domain_identifier]))
    ELSE LET domain_id == NextId(B.domain)
         IN  Out([B EXCEPT
                    !.domain = Push(@, [domain_identifier |-> domain_identifier,
                                        domain_description |-> domain_description]),
                    !.domain_identifier_map = MapInsert(@, domain_identifier, domain_id)],
                 Ok(domain_id))

\* make_value_node that never consults the value map.
make_value_node_no_dedup(B, value, info, domain_identifiers, metadata) ==
    LET d == resolve_domains(B, domain_identifiers)
        node_id == NextId(B.nodes)
    IN  IF ~d.ok
        THEN Out(B, Err("DomainNotFound"))
        ELSE Out([B EXCEPT
                    !.nodes = Push(@, NodeNew(ValueType(value), d.ids)),
                    !.node_info = Push(@, info),
                    !.node_metadata = Push(@, metadata),
                    !.value_map = MapInsert(@, value, node_id)],
                 Ok(node_id))

\* make_value_node that, on a hit, replaces the info and metadata of the node.
make_value_node_last_writer(B, value, info, domain_identifiers, metadata) ==
    IF value \in DOMAIN B.value_map
    THEN Out([B EXCEPT !.node_info[B.value_map[value] + 1] = info,
                       !.node_metadata[B.value_map[value] + 1] = metadata],
             Ok(B.value_map[value]))
    ELSE make_value_node_no_dedup(B, value, info, domain_identifiers, metadata)

\* make_value_node that resolves the domain identifiers before the value map.
make_value_node_domains_first(B, value, info, domain_identifiers, metadata) ==
    IF ~resolve_domains(B, domain_identifiers).ok
    THEN Out(B, Err("DomainNotFound"))
    ELSE IF value \in DOMAIN B.value_map
    THEN Out(B, Ok(B.value_map[value]))
    ELSE make_value_node_no_dedup(B, value, info, domain_identifiers, metadata)

\* make_value_node
make_value_node(B, value, info, domain_identifiers, metadata) ==
    IF value \in DOMAIN B.value_map
    THEN Out(B, Ok(B.value_map[value]))
    ELSE LET d == resolve_domains(B, domain_identifiers)
             node_id == NextId(B.nodes)
         IN  IF ~d.ok
             THEN Out(B, Err("DomainNotFound"))
             ELSE Out([B EXCEPT
                         !.nodes = Push(@, NodeNew(ValueType(value), d.ids)),
                         !.node_info = Push(@, info),
                         !.node_metadata = Push(@, metadata),
                         !.value_map = MapInsert(@, value, node_id)],
                      Ok(node_id))

\* create_edge that does not list the new edge in succ.preds.
create_edge_succs_only(B, pred_id, succ_id, strength, relation) ==
    LET edge_id == NextId(B.edges)
        B1 == [B EXCEPT
                 !.edges = Push(@, [strength |-> strength, relation |-> relation,
                                    pred |-> pred_id, succ |-> succ_id]),
                 !.edges_map = MapInsert(@, <<pred_id, succ_id>>, edge_id)]
    IN  IF ~ContainsKey(B1.nodes, pred_id) THEN Out(B1, Err("NodeNotFound"))
        ELSE Out([B1 EXCEPT !.nodes[pred_id + 1].succs = Append(@, edge_id)], Ok(edge_id))

\* create_edge that puts the new edge id at the head of succ.preds.
create_edge_prepend(B, pred_id, succ_id, strength, relation) ==
    LET edge_id == NextId(B.edges)
        B1 == [B EXCEPT
                 !.edges = Push(@, [strength |-> strength, relation |-> relation,
                                    pred |-> pred_id, succ |-> succ_id]),
                 !.edges_map = MapInsert(@, <<pred_id, succ_id>>, edge_id)]
    IN  IF ~ContainsKey(B1.nodes, pred_id) THEN Out(B1, Err("NodeNotFound"))
        ELSE LET B2 == [B1 EXCEPT !.nodes[pred_id + 1].succs = Append(@, edge_id)]
             IN  IF ~ContainsKey(B2.nodes, succ_id) THEN Out(B2, Err("NodeNotFound"))
                 ELSE Out([B2 EXCEPT !.nodes[succ_id + 1].preds = <<edge_id>> \o @],
                          Ok(edge_id))

\* The closure of make_edge that creates the edge (no edge is indexed for the
\* pair): the edge is pushed and indexed, then appended to pred.succs and to
\* succ.preds; a get_mut that finds no node returns NodeNotFound there.
create_edge(B, pred_id, succ_id, strength, relation) ==
    LET edge_id == NextId(B.edges)
        B1 == [B EXCEPT
                 !.edges = Push(@, [strength |-> strength, relation |-> relation,
                                    pred |-> pred_id, succ |-> succ_id]),
                 !.edges_map = MapInsert(@, <<pred_id, succ_id>>, edge_id)]
    IN  IF ~ContainsKey(B1.nodes, pred_id) THEN Out(B1, Err("NodeNotFound"))
        ELSE LET B2 == [B1 EXCEPT !.nodes[pred_id + 1].succs = Append(@, edge_id)]
             IN  IF ~ContainsKey(B2.nodes, succ_id) THEN Out(B2, Err("NodeNotFound"))
                 ELSE Out([B2 EXCEPT !.nodes[succ_id + 1].preds = Append(@, edge_id)],
                          Ok(edge_id))

\* The edge indexed for the pair, when the index has one that the arena holds.
HasIndexedEdge(B, pred_id, succ_id) ==
    /\ <<pred_id, succ_id>> \in DOMAIN B.edges_map
    /\ ContainsKey(B.edges, B.edges_map[<<pred_id, succ_id>>])

\* make_edge without the two ensure_node_exists calls.
make_edge_unchecked(B, pred_id, succ_id, strength, relation) ==
    IF HasIndexedEdge(B, pred_id, succ_id)
    THEN LET edge_id == B.edges_map[<<pred_id, succ_id>>]
             edge == Get(B.edges, edge_id)
         IN  IF edge.strength = strength /\ edge.relation = relation
             THEN Out(B, Ok(edge_id))
             ELSE Out(B, Err("ConflictingEdgeCreated"))
    ELSE create_edge(B, pred_id, succ_id, strength, relation)

\* make_edge that never looks the pair up in the edge index.
make_edge_no_lookup(B, pred_id, succ_id, strength, relation) ==
    IF ~IsOk(ensure_node_exists(B, pred_id)) THEN Out(B, Err("NodeNotFound"))
    ELSE IF ~IsOk(ensure_node_exists(B, succ_id)) THEN Out(B, Err("NodeNotFound"))
    ELSE create_edge(B, pred_id, succ_id, strength, relation)

\* make_edge that compares the strength of the stored edge only.
make_edge_strength_only(B, pred_id, succ_id, strength, relation) ==
    IF ~IsOk(ensure_node_exists(B, pred_id)) THEN Out(B, Err("NodeNotFound"))
    ELSE IF ~IsOk(ensure_node_exists(B, succ_id)) THEN Out(B, Err("NodeNotFound"))
    ELSE IF HasIndexedEdge(B, pred_id, succ_id)
    THEN LET edge_id == B.edges_map[<<pred_id, succ_id>>]
             edge == Get(B.edges, edge_id)
         IN  IF edge.strength = strength
             THEN Out(B, Ok(edge_id))
             ELSE Out(B, Err("ConflictingEdgeCreated"))
    ELSE create_edge(B, pred_id, succ_id, strength, relation)

\* make_edge that rejects an edge closing a cycle of one or two nodes.
make_edge_acyclic(B, pred_id, succ_id, strength, relation) ==
    IF ~IsOk(ensure_node_exists(B, pred_id)) THEN Out(B, Err("NodeNotFound"))
    ELSE IF ~IsOk(ensure_node_exists(B, succ_id)) THEN Out(B, Err("NodeNotFound"))
    ELSE IF pred_id = succ_id \/ HasIndexedEdge(B, succ_id, pred_id)
    THEN Out(B, Err("MalformedGraph"))
    ELSE IF HasIndexedEdge(B, pred_id, succ_id)
    THEN LET edge_id == B.edges_map[<<pred_id, succ_id>>]
             edge == Get(B.edges, edge_id)
         IN  IF edge.strength = strength /\ edge.relation = relation
             THEN Out(B, Ok(edge_id))
             ELSE Out(B, Err("ConflictingEdgeCreated"))
    ELSE create_edge(B, pred_id, succ_id, strength, relation)

\* make_edge
make_edge(B, pred_id, succ_id, strength, relation) ==
    IF ~IsOk(ensure_node_exists(B, pred_id)) THEN Out(B, Err("NodeNotFound"))
    ELSE IF ~IsOk(ensure_node_exists(B, succ_id)) THEN Out(B, Err("NodeNotFound"))
    ELSE IF HasIndexedEdge(B, pred_id, succ_id)
    THEN LET edge_id == B.edges_map[<<pred_id, succ_id>>]
             edge == Get(B.edges, edge_id)
         IN  IF edge.strength = strength /\ edge.relation = relation
             THEN Out(B, Ok(edge_id))
             ELSE Out(B, Err("ConflictingEdgeCreated"))
    ELSE create_edge(B, pred_id, succ_id, strength, relation)

\* The loop of make_all_aggregator and make_any_aggregator that makes one edge
\* per member, from member i on, and stops at the first failing make_edge.
\* members[i] = <<node_id, relation, strength>>.
RECURSIVE make_member_edges(_, _, _, _)
make_member_edges(B, members, i, aggregator_id) ==
    IF i > Len(members) THEN Out(B, Ok(aggregator_id))
    ELSE LET r == make_edge(B, members[i][1], aggregator_id, members[i][3], members[i][2])
         IN  IF IsOk(r.res)
             THEN make_member_edges(r.b, members, i + 1, aggregator_id)
             ELSE r

\* The shared body with the domain identifiers resolved before the member ids
\* are checked.
make_aggregator_domains_first(B, node_type, members, info, metadata, domain) ==
    LET d == resolve_domains(B, domain)
        aggregator_id == NextId(B.nodes)
    IN  IF ~d.ok
        THEN Out(B, Err("DomainNotFound"))
        ELSE IF \E i \in 1..Len(members) : ~IsOk(ensure_node_exists(B, members[i][1]))
        THEN Out(B, Err("NodeNotFound"))
        ELSE make_member_edges(
                 [B EXCEPT
                    !.nodes = Push(@, NodeNew(node_type, d.ids)),
                    !.node_info = Push(@, info),
                    !.node_metadata = Push(@, metadata)],
                 members, 1, aggregator_id)

\* The body shared by make_all_aggregator and make_any_aggregator.
make_aggregator(B, node_type, members, info, metadata, domain) ==
    IF \E i \in 1..Len(members) : ~IsOk(ensure_node_exists(B, members[i][1]))
    THEN Out(B, Err("NodeNotFound"))
    ELSE LET d == resolve_domains(B, domain)
             aggregator_id == NextId(B.nodes)
         IN  IF ~d.ok
             THEN Out(B, Err("DomainNotFound"))
             ELSE make_member_edges(
                      [B EXCEPT
                         !.nodes = Push(@, NodeNew(node_type, d.ids)),
                         !.node_info = Push(@, info),
                         !.node_metadata = Push(@, metadata)],
                      members, 1, aggregator_id)

\* make_all_aggregator that makes every member edge Strong.
make_all_aggregator_forced_strong(B, nodes, info, metadata, domain) ==
    make_aggregator(B, AllAggregatorType,
                    [i \in 1..Len(nodes) |-> <<nodes[i][1], nodes[i][2], "Strong">>],
                    info, metadata, domain)

\* make_all_aggregator: nodes[i] = <<node_id, relation, strength>>
make_all_aggregator(B, nodes, info, metadata, domain) ==
    make_aggregator(B, AllAggregatorType, nodes, info, metadata, domain)

\* make_any_aggregator: nodes[i] = <<node_id, relation>>, every edge Strong
make_any_aggregator(B, nodes, info, metadata, domain) ==
    make_aggregator(B, AnyAggregatorType,
                    [i \in 1..Len(nodes) |-> <<nodes[i][1], nodes[i][2], "Strong">>],
                    info, metadata, domain)

\* make_in_aggregator that pushes no metadata slot.
make_in_aggregator_no_metadata(B, values, info, metadata, domain) ==
    IF Len(values) = 0 THEN Out(B, Err("NoInAggregatorValues"))
    ELSE IF \E i \in 1..Len(values) : get_key(values[i]) # get_key(values[1])
    THEN Out(B, Err("MalformedGraph"))
    ELSE LET d == resolve_domains(B, domain)
             node_id == NextId(B.nodes)
         IN  IF ~d.ok
             THEN Out(B, Err("DomainNotFound"))
             ELSE Out([B EXCEPT
                         !.nodes = Push(@, NodeNew(
                             InAggregatorType({values[i] : i \in 1..Len(values)}), d.ids)),
                         !.node_info = Push(@, info)],
                      Ok(node_id))

\* make_in_aggregator that does not compare the keys of the values.
make_in_aggregator_no_key_check(B, values, info, metadata, domain) ==
    IF Len(values) = 0 THEN Out(B, Err("NoInAggregatorValues"))
    ELSE LET d == resolve_domains(B, domain)
             node_id == NextId(B.nodes)
         IN  IF ~d.ok
             THEN Out(B, Err("DomainNotFound"))
             ELSE Out([B EXCEPT
                         !.nodes = Push(@, NodeNew(
                             InAggregatorType({values[i] : i \in 1..Len(values)}), d.ids)),
                         !.node_info = Push(@, info),
                         !.node_metadata = Push(@, metadata)],
                      Ok(node_id))

\* make_in_aggregator
make_in_aggregator(B, values, info, metadata, domain) ==
    IF Len(values) = 0 THEN Out(B, Err("NoInAggregatorValues"))
    ELSE IF \E i \in 1..Len(values) : get_key(values[i]) # get_key(values[1])
    THEN Out(B, Err("MalformedGraph"))
    ELSE LET d == resolve_domains(B, domain)
             node_id == NextId(B.nodes)
         IN  IF ~d.ok
             THEN Out(B, Err("DomainNotFound"))
             ELSE Out([B EXCEPT
                         !.nodes = Push(@, NodeNew(
                             InAggregatorType({values[i] : i \in 1..Len(values)}), d.ids)),
                         !.node_info = Push(@, info),
                         !.node_metadata = Push(@, metadata)],
                      Ok(node_id))

\* build that leaves the edge arena behind.
build_without_edges(B) ==
    [ domain |-> B.domain,
      nodes |-> B.nodes,
      edges |-> << >>,
      value_map |-> B.value_map,
      node_info |-> B.node_info,
      node_metadata |-> B.node_metadata ]

\* build: the arenas, the value map, the info and the metadata move to the graph.
build(B) ==
    [ domain |-> B.domain,
      nodes |-> B.nodes,
      edges |-> B.edges,
      value_map |-> B.value_map,
      node_info |-> B.node_info,
      node_metadata |-> B.node_metadata ]

\* ------------------------------------------------------------- MockDb merchant key store
\* merchant_key_store.rs, impl MerchantKeyStoreInterface for MockDb.
MerchantIds == {"merchant" \o ToString(i) : i \in 1..MaxMerchants}

\* The keys a caller passes to insert and get, and the keys a merchant key is
\* encrypted under.
MasterKeys == {"master_key", "zero_key"}

\* The key material of a merchant (generate_aes256_key).
KeyMaterial == {"aes1", "aes2"}

\* domain::MerchantKeyStore: key is the material together with its encryption.
DomainMerchantKeyStores ==
    {[merchant_id |-> m,
      key |-> [inner |-> p, encrypted |-> <<"enc", p, k>>],
      created_at |-> "2023-02-01"] :
        m \in MerchantIds, p \in KeyMaterial, k \in MasterKeys}

NoValue ==
    [merchant_id |-> "", key |-> [inner |-> "", encrypted |-> << >>], created_at |-> ""]

StoreOk(v) == [err |-> "none", val |-> v]
StoreErr(e) == [err |-> e, val |-> NoValue]

\* Conversion::convert: the storage model keeps the encrypted key only.
Conversion_convert(x) ==
    [merchant_id |-> x.merchant_id, key |-> x.key.encrypted, created_at |-> x.created_at]

\* ReverseConversion::convert(state, key): the stored key is decrypted with
\* the key given, which fails for a key it was not encrypted under.
ReverseConversion_convert(item, key) ==
    IF item.key[3] = key
    THEN StoreOk([merchant_id |-> item.merchant_id,
                  key |-> [inner |-> item.key[2], encrypted |-> item.key],
                  created_at |-> item.created_at])
    ELSE StoreErr("DecryptionError")

StoreOut(store, res) == [store |-> store, res |-> res]

\* The positions of the entries of merchant_id.
PositionsOf(store, merchant_id) ==
    {i \in 1..Len(store) : store[i].merchant_id = merchant_id}

\* insert_merchant_key_store without the duplicate check.
insert_merchant_key_store_unchecked(store, merchant_key_store, key, converts) ==
    IF ~converts
    THEN StoreOut(store, StoreErr("MockDbError"))
    ELSE LET merchant_key == Conversion_convert(merchant_key_store)
         IN  StoreOut(Append(store, merchant_key), ReverseConversion_convert(merchant_key, key))

\* insert_merchant_key_store; converts is the outcome of Conversion::convert.
insert_merchant_key_store(store, merchant_key_store, key, converts) ==
    IF PositionsOf(store, merchant_key_store.merchant_id) # {}
    THEN StoreOut(store, StoreErr("DuplicateValue"))
    ELSE IF ~converts
    THEN StoreOut(store, StoreErr("MockDbError"))
    ELSE LET merchant_key == Conversion_convert(merchant_key_store)
         IN  StoreOut(Append(store, merchant_key), ReverseConversion_convert(merchant_key, key))

\* get_merchant_key_store_by_merchant_id: the first entry of the merchant id.
get_merchant_key_store_by_merchant_id(store, merchant_id, key) ==
    IF PositionsOf(store, merchant_id) = {}
    THEN StoreOut(store, StoreErr("ValueNotFound"))
    ELSE LET i == CHOOSE j \in PositionsOf(store, merchant_id) :
                      \A k \in PositionsOf(store, merchant_id) : j <= k
         IN  StoreOut(store, ReverseConversion_convert(store[i], key))

\* delete_merchant_key_store_by_merchant_id: the first entry of the merchant
\* id is removed.
delete_merchant_key_store_by_merchant_id(store, merchant_id) ==
    IF PositionsOf(store, merchant_id) = {}
    THEN StoreOut(store, StoreErr("ValueNotFound"))
    ELSE LET i == CHOOSE j \in PositionsOf(store, merchant_id) :
                      \A k \in PositionsOf(store, merchant_id) : j <= k
         IN  StoreOut(SubSeq(store, 1, i - 1) \o SubSeq(store, i + 1, Len(store)),
                      StoreOk(NoValue))

\* -------------------------------------- payment_method_status_update.rs

\* PaymentMethodStatusTrackingData: the status the task was created for and the
\* status it sets.
PaymentMethodStatuses == {"AwaitingData", "Active", "Inactive"}
PrevStatus == "AwaitingData"
CurrStatus == "Inactive"

\* PaymentMethodsPTMapping::default().default_mapping: the first delay and the
\* table of (delay, number of retries it covers).
StartAfter == 900
Frequencies == << <<900, MaxDelayCount>> >>

None == [some |-> FALSE, val |-> 0]
Some(v) == [some |-> TRUE, val |-> v]

\* pt_utils::get_delay: the delay of the first table row whose cumulative count
\* reaches retry_count, None past the table.
RECURSIVE get_delay_from(_, _, _, _)
get_delay_from(retry_count, frequencies, i, cumulative_count) ==
    IF i > Len(frequencies) THEN None
    ELSE IF cumulative_count + frequencies[i][2] >= retry_count
    THEN Some(frequencies[i][1])
    ELSE get_delay_from(retry_count, frequencies, i + 1,
                        cumulative_count + frequencies[i][2])

get_delay(retry_count, frequencies) ==
    IF retry_count <= 0 THEN Some(0)
    ELSE get_delay_from(retry_count, frequencies, 1, 0)

\* The ProcessTracker entry as the task is created.
NewProcess ==
    [ status |-> "Pending", business_status |-> "Pending", retry_count |-> 0,
      schedule_delta |-> None ]

NoRun ==
    [ retry_count |-> -1, stored |-> "none", loaded |-> FALSE, updated |-> FALSE,
      calls |-> << >>, res |-> "none", error_handler |-> FALSE ]

\* What a run meets: whether tracking_data parses, whether each load, the
\* update and the scheduler call succeed.
RunInputs ==
    [ parse : BOOLEAN, key_store : BOOLEAN, merchant_account : BOOLEAN,
      payment_method : BOOLEAN, update : BOOLEAN, scheduler : BOOLEAN ]

\* The result of execute_workflow: the entry, the stored status, whether the
\* payment method was loaded and updated, the scheduler calls made, the Result.
WfOut(p, pm, loaded, updated, calls, res) ==
    [ process |-> p, payment_method |-> pm, loaded |-> loaded, updated |-> updated,
      calls |-> calls, res |-> res ]

\* The error of the first step of the run that fails before the payment
\* method is loaded: parse_value and the three loads, in this order.
LoadError(in) ==
    IF ~in.parse THEN "ParsingError"
    ELSE IF ~in.key_store THEN "KeyStoreError"
    ELSE IF ~in.merchant_account THEN "MerchantAccountError"
    ELSE "PaymentMethodError"

\* scheduler: finish_process_with_business_status.
finish_process_with_business_status(p, business_status) ==
    [p EXCEPT !.status = "Finish", !.business_status = business_status]

\* scheduler: retry_process re-schedules the entry with retry_count incremented.
retry_process(p, schedule_time) ==
    [p EXCEPT !.status = "Pending", !.retry_count = @ + 1,
              !.schedule_delta = schedule_time]

\* The scheduler calls of execute_workflow.
Finish(business_status) ==
    [op |-> "finish", business_status |-> business_status, schedule_time |-> None]
Retry(schedule_time) ==
    [op |-> "retry_process", business_status |-> "none", schedule_time |-> schedule_time]

\* One scheduler call of a run: it takes effect when the scheduler answers Ok
\* and leaves the entry alone, with its error returned, otherwise.
SchedulerCall(p, pm, updated, call, next, in) ==
    IF in.scheduler
    THEN WfOut(next, pm, TRUE, updated, << [call |-> call, ok |-> TRUE] >>, "Ok")
    ELSE WfOut(p, pm, TRUE, updated, << [call |-> call, ok |-> FALSE] >>,
               "SchedulerError")

\* let time_delta = if retry_count == 0 { Some(start_after) } else { get_delay }
time_delta(retry_count) ==
    IF retry_count = 0 THEN Some(StartAfter)
    ELSE get_delay(retry_count + 1, Frequencies)

\* The branch after a failed update that retries whatever the delay table says.
after_failed_update_always_retry(p, pm, in) ==
    SchedulerCall(p, pm, FALSE, Retry(Some(StartAfter)),
                  retry_process(p, Some(StartAfter)), in)

\* execute_workflow: the else branch of `if let Ok(_pm) = res`.
after_failed_update(p, pm, in) ==
    LET schedule_time == time_delta(p.retry_count)
    IN  IF schedule_time.some
        THEN SchedulerCall(p, pm, FALSE, Retry(schedule_time),
                           retry_process(p, schedule_time), in)
        ELSE SchedulerCall(p, pm, FALSE, Finish("RETRIES_EXCEEDED"),
                           finish_process_with_business_status(p, "RETRIES_EXCEEDED"),
                           in)

\* execute_workflow without the comparison of the stored status with
\* prev_status.
execute_workflow_no_status_check(p, pm, in) ==
    IF ~in.parse \/ ~in.key_store \/ ~in.merchant_account \/ ~in.payment_method
    THEN WfOut(p, pm, FALSE, FALSE, << >>, LoadError(in))
    ELSE IF in.update
    THEN SchedulerCall(p, CurrStatus, TRUE, Finish("COMPLETED_BY_PT"),
                       finish_process_with_business_status(p, "COMPLETED_BY_PT"), in)
    ELSE after_failed_update(p, pm, in)

\* PaymentMethodStatusUpdateWorkflow::execute_workflow.
execute_workflow(p, pm, in) ==
    IF ~in.parse \/ ~in.key_store \/ ~in.merchant_account \/ ~in.payment_method
    THEN WfOut(p, pm, FALSE, FALSE, << >>, LoadError(in))
    ELSE IF pm # PrevStatus
    THEN SchedulerCall(p, pm, FALSE, Finish("PROCESS_ALREADY_COMPLETED"),
                       finish_process_with_business_status(p, "PROCESS_ALREADY_COMPLETED"),
                       in)
    ELSE IF in.update
    THEN SchedulerCall(p, CurrStatus, TRUE, Finish("COMPLETED_BY_PT"),
                       finish_process_with_business_status(p, "COMPLETED_BY_PT"), in)
    ELSE after_failed_update(p, pm, in)

\* The consumer picks the pending entry up (ProcessStarted), runs
\* execute_workflow and calls error_handler, which only logs, on Err.
RunOf(p, pm, in) ==
    LET started == [p EXCEPT !.status = "ProcessStarted"]
        out == execute_workflow(started, pm, in)
    IN  [ process |-> out.process,
          payment_method |-> out.payment_method,
          run |-> [ retry_count |-> p.retry_count, stored |-> pm,
                    loaded |-> out.loaded, updated |-> out.updated,
                    calls |-> out.calls, res |-> out.res,
                    error_handler |-> out.res # "Ok" ] ]

\* ------------------------------------------------ vault.rs, the temp locker

\* The values (value1) and the encryption keys of the calls on one lookup key.
LockerValues == {"card1", "card2"}
EncryptionKeys == {"key1", "key2"}

\* The Redis entry of get_redis_locker_key(lookup_key): the encrypted payload
\* and the ticks left before it expires.
NoLockerEntry == [payload |-> << >>, ttl |-> 0]

\* GcmAes256.encode_message(key, payload) and decode_message, which fails
\* under another key.
encode_message(key, payload) == <<"GcmAes256", key, payload>>
decode_message(key, message) ==
    IF Len(message) = 3 /\ message[2] = key THEN [err |-> "none", val |-> message[3]]
    ELSE [err |-> "InternalServerError", val |-> "none"]

VaultOk(v) == [err |-> "none", val |-> v]
VaultErr(e) == [err |-> e, val |-> "none"]
VaultOut(entry, res) == [locker |-> entry, res |-> res]

\* What a call on the locker meets: whether get_redis_conn succeeds and
\* whether Redis answers the command.
RedisInputs == [conn : BOOLEAN, redis : BOOLEAN]

\* redis_interface: SET NX EX, which writes only when the key is absent.
set_key_if_not_exists_with_expiry(entry, value, seconds) ==
    IF entry = NoLockerEntry
    THEN [locker |-> [payload |-> value, ttl |-> seconds], reply |-> "KeySet"]
    ELSE [locker |-> entry, reply |-> "KeyNotSet"]

\* redis_interface: DEL and its DelReply.
delete_key(entry) ==
    IF entry = NoLockerEntry
    THEN [locker |-> entry, reply |-> "KeyNotDeleted"]
    ELSE [locker |-> NoLockerEntry, reply |-> "KeyDeleted"]

\* create_tokenize with SET in place of SET NX: the entry is replaced.
create_tokenize_overwrite(entry, value1, encryption_key, in) ==
    IF ~in.conn \/ ~in.redis THEN VaultOut(entry, VaultErr("InternalServerError"))
    ELSE VaultOut([payload |-> encode_message(encryption_key, value1),
                   ttl |-> LockerExpiry],
                  VaultOk("lookup_key"))

\* create_tokenize: set_key_if_not_exists_with_expiry and .map(|_| lookup_key),
\* whatever the reply (KeySet or KeyNotSet).
create_tokenize(entry, value1, encryption_key, in) ==
    IF ~in.conn \/ ~in.redis THEN VaultOut(entry, VaultErr("InternalServerError"))
    ELSE LET set == set_key_if_not_exists_with_expiry(
                        entry, encode_message(encryption_key, value1), LockerExpiry)
         IN  VaultOut(set.locker, VaultOk("lookup_key"))

\* get_tokenized_data: get_key, decode_message and parse_struct.  For an absent
\* key both errors occur: get_key's error, or the failure to decode its empty
\* reply.
get_tokenized_data(entry, encryption_key, in) ==
    IF ~in.conn THEN VaultOut(entry, VaultErr("InternalServerError"))
    ELSE IF ~in.redis THEN VaultOut(entry, VaultErr("UnprocessableEntity"))
    ELSE VaultOut(entry, decode_message(encryption_key, entry.payload))

\* delete_tokenized_data that takes KeyNotDeleted for a success.
delete_tokenized_data_lenient(entry, in) ==
    IF ~in.conn \/ ~in.redis THEN VaultOut(entry, VaultErr("InternalServerError"))
    ELSE VaultOut(NoLockerEntry, VaultOk("deleted"))

\* delete_tokenized_data: delete_key and the match on DelReply.
delete_tokenized_data(entry, in) ==
    IF ~in.conn \/ ~in.redis THEN VaultOut(entry, VaultErr("InternalServerError"))
    ELSE LET response == delete_key(entry)
         IN  IF response.reply = "KeyDeleted"
             THEN VaultOut(response.locker, VaultOk("deleted"))
             ELSE VaultOut(response.locker, VaultErr("InternalServerError"))

\* get_delete_tokenize_schedule_time: get_pm_schedule_time(mapping, pm,
\* retry_count + 1) with the default mapping.
get_delete_tokenize_schedule_time(retry_count) ==
    IF retry_count + 1 = 0 THEN Some(StartAfter)
    ELSE get_delay(retry_count + 1, Frequencies)

\* What a run of the delete workflow meets.
TokenizeRunInputs ==
    [parse : BOOLEAN, conn : BOOLEAN, redis : BOOLEAN, scheduler : BOOLEAN]

NoTokenizeRun ==
    [ retry_count |-> -1, present |-> FALSE, deleted |-> FALSE, delete |-> "none",
      calls |-> << >>, res |-> "none" ]

\* The result of start_tokenize_data_workflow.
TokenizeOut(p, entry, delete, calls, res) ==
    [process |-> p, locker |-> entry, delete |-> delete, calls |-> calls, res |-> res]

\* One scheduler call of the delete workflow.
TokenizeSchedulerCall(p, entry, delete, call, next, in) ==
    IF in.scheduler
    THEN TokenizeOut(next, entry, delete, << [call |-> call, ok |-> TRUE] >>, "Ok")
    ELSE TokenizeOut(p, entry, delete, << [call |-> call, ok |-> FALSE] >>,
                     "SchedulerError")

\* retry_delete_tokenize.
retry_delete_tokenize(p, entry, delete, in) ==
    LET schedule_time == get_delete_tokenize_schedule_time(p.retry_count)
    IN  IF schedule_time.some
        THEN TokenizeSchedulerCall(p, entry, delete, Retry(schedule_time),
                                   retry_process(p, schedule_time), in)
        ELSE TokenizeSchedulerCall(p, entry, delete, Finish("RETRIES_EXCEEDED"),
                                   finish_process_with_business_status(p, "RETRIES_EXCEEDED"),
                                   in)

\* start_tokenize_data_workflow.
start_tokenize_data_workflow(p, entry, in) ==
    IF ~in.parse THEN TokenizeOut(p, entry, "none", << >>, "ParsingError")
    ELSE LET d == delete_tokenized_data(entry, in)
         IN  IF d.res.err = "none"
             THEN TokenizeSchedulerCall(p, d.locker, "Ok", Finish("COMPLETED_BY_PT"),
                                        finish_process_with_business_status(p, "COMPLETED_BY_PT"),
                                        in)
             ELSE retry_delete_tokenize(p, d.locker, "Err", in)

\* ------------------------------------------------------------- state
VARIABLES
    builder,    \* the ConstraintGraphBuilder
    graph,      \* the ConstraintGraph build() produced, NoGraph before
    ret,        \* the last call: its operation, its result, whether it changed the builder
    eval,       \* the evaluation call on the built graph, Idle before it
    merchant_key_store,     \* MockDb.merchant_key_store, the Vec behind the mutex
    store_ret,              \* the last call on the merchant key store and its result
    data_source,            \* the data source behind the cache key: the version it holds
    redis,                  \* the Redis entry of the cache key
    in_memory,              \* the in-memory cache's entry of the cache key
    getter,                 \* the task calling get_or_populate_in_memory / _redis
    redactor,               \* the task calling redact_cache
    publisher,              \* the task calling publish_and_redact(_multiple)
    channel,                \* PUB_SUB_CHANNEL: the number of messages published per key
    process,                \* the ProcessTracker entry of the status-update task
    payment_method,         \* the stored status of the tracked payment method
    run,                    \* the last run of execute_workflow on the process
    locker,                 \* the Redis entry of the locker key of one lookup key
    tokenize_tracker,       \* the ProcessTracker entry of the delete-tokenize task
    vault_ret               \* the last call on the locker, or the last workflow run

graphvars == <<builder, graph, ret, eval>>
storevars == <<merchant_key_store, store_ret>>
cachevars == <<data_source, redis, in_memory, getter, redactor>>
pubvars == <<publisher, channel>>
workflowvars == <<process, payment_method, run>>
vaultvars == <<locker, tokenize_tracker, vault_ret>>
othervars == <<pubvars, workflowvars, vaultvars>>
routervars == <<storevars, cachevars, othervars>>
vars == <<builder, graph, ret, eval, merchant_key_store, store_ret,
          data_source, redis, in_memory, getter, redactor, publisher, channel,
          process, payment_method, run, locker, tokenize_tracker, vault_ret>>

\* A cache entry: the serialized value and the type it was serialized from.
NoEntry == [type |-> "none", val |-> -1]
Entry(T, v) == [type |-> T, val |-> v]

\* The types T a get_or_populate call is made for.
CacheTypes == {"T", "U"}

CacheOk(v) == [err |-> "none", val |-> v]
CacheErr(e) == [err |-> e, val |-> -1]

\* A task before its first call.
GetterIdle ==
    [ pc |-> "idle", calls |-> 0, T |-> "none", via_memory |-> FALSE, read |-> "none",
      loader |-> "none", set |-> "none", pushed |-> FALSE, data |-> -1,
      result |-> CacheErr("none") ]
RedactorIdle ==
    [ pc |-> "idle", calls |-> 0, given |-> FALSE, closure |-> "none",
      mem_removed |-> FALSE, redis_deleted |-> FALSE, data |-> -1,
      result |-> CacheErr("none") ]

\* The cache keys (CacheKind) a publish call names.
CacheKinds == {"Accounts(k1)", "Config(k2)"}

\* before is the data source when the call began, pending the keys whose
\* publish future has not completed, published the keys published by the call.
PublisherIdle ==
    [ pc |-> "idle", calls |-> 0, multiple |-> FALSE, keys |-> {}, before |-> 0,
      closure |-> "none", pending |-> {}, published |-> {}, data |-> -1,
      result |-> CacheErr("none") ]

NoGraph == [built |-> FALSE]

\* No evaluation call has been made.
Idle ==
    [ phase |-> "idle", ctx |-> << >>, mode |-> "none", target |-> 0,
      memo |-> << >>, reading |-> << >>, reentry |-> {}, stack |-> << >>,
      result |-> [err |-> "none", verdict |-> "none"] ]

Init ==
    /\ builder = new
    /\ graph = NoGraph
    /\ ret = [op |-> "new", res |-> Ok(0), changed |-> FALSE]
    /\ eval = Idle
    /\ merchant_key_store = << >>
    /\ store_ret = [op |-> "new", res |-> StoreOk(NoValue)]
    /\ data_source = 0
    /\ redis = NoEntry
    /\ in_memory = NoEntry
    /\ getter = GetterIdle
    /\ redactor = RedactorIdle
    /\ publisher = PublisherIdle
    /\ channel = [k \in CacheKinds |-> 0]
    /\ process = NewProcess
    /\ payment_method = PrevStatus
    /\ run = NoRun
    /\ locker = NoLockerEntry
    /\ tokenize_tracker = NewProcess
    /\ vault_ret = [op |-> "none", key |-> "none", res |-> VaultErr("none"),
                    run |-> NoTokenizeRun]

\* The arenas stay within the bound of the model.
WithinBounds(B) == Len(B.domain) + Len(B.nodes) + Len(B.edges) <= MaxEntries

\* A call of a construction operation: the builder is replaced by the one the
\* operation leaves and the result is recorded.
Call(op, out) ==
    /\ graph = NoGraph
    /\ WithinBounds(out.b)
    /\ builder' = out.b
    /\ ret' = [op |-> op, res |-> out.res, changed |-> out.b # builder]
    /\ UNCHANGED <<graph, eval, routervars>>

\* Node ids a caller may pass: those of the arena and the first one past it.
NodeIdArgs == 0..Len(builder.nodes)

\* Lists of member node ids given to the aggregator constructors.
MemberNodeLists ==
    UNION {[1..n -> NodeIdArgs] : n \in 0..MaxMembers}

MakeDomain ==
    \E ident \in DomainIdentifiers, desc \in DomainDescriptions :
        Call("make_domain", make_domain(builder, ident, desc))

MakeValueNode ==
    \E value \in NodeValues, a \in Attachments :
        Call("make_value_node",
             make_value_node(builder, value, a.info, a.domains, a.metadata))

MakeEdge ==
    \E p \in NodeIdArgs, s \in NodeIdArgs, strength \in Strengths, relation \in Relations :
        Call("make_edge",
             make_edge(builder, p, s, strength, relation))

MakeAllAggregator ==
    \E ns \in MemberNodeLists, l \in MemberLabels, a \in Attachments :
        LET members == [i \in 1..Len(ns) |-> <<ns[i], l[i][1], l[i][2]>>]
        IN  Call("make_all_aggregator",
                 make_all_aggregator(builder, members, a.info, a.metadata, a.domains))

MakeAnyAggregator ==
    \E ns \in MemberNodeLists, l \in MemberLabels, a \in Attachments :
        LET members == [i \in 1..Len(ns) |-> <<ns[i], l[i][1]>>]
        IN  Call("make_any_aggregator",
                 make_any_aggregator(builder, members, a.info, a.metadata, a.domains))

MakeInAggregator ==
    \E values \in InValueLists, a \in Attachments :
        Call("make_in_aggregator",
             make_in_aggregator(builder, values, a.info, a.metadata, a.domains))

Build ==
    /\ graph = NoGraph
    /\ graph' = [built |-> TRUE, g |-> build(builder)]
    /\ ret' = [op |-> "build", res |-> Ok(0), changed |-> FALSE]
    /\ UNCHANGED <<builder, eval, routervars>>

Next ==
    \/ MakeDomain
    \/ MakeValueNode
    \/ MakeEdge
    \/ MakeAllAggregator
    \/ MakeAnyAggregator
    \/ MakeInAggregator
    \/ Build

Spec == Init /\ [][Next]_vars

\* ------------------------------------------------------------- evaluator
\* Section 4.5 of the specification: one evaluation call on the built graph,
\* for a target node, a fact context and an evaluation mode.
Modes == {"Strict", "BestEffort"}

\* A fact context: the value asserted for each key, 0 when the key has no entry.
ContextKeys == {"a", "b"}
Contexts == [ContextKeys -> {0, 1}]

Verdict(holds) == IF holds THEN "Satisfied" ELSE "Unsatisfied"

\* Value(v): Satisfied iff v is present and true in the context; a bare key
\* holds when the context has an entry for it.
ValueHolds(ctx, value) ==
    IF value.tag = "Key"
    THEN ctx[get_key(value.v)] # 0
    ELSE ctx[get_key(value.v)] = value.v[2]

\* InAggregator(set): Satisfied iff the context's value for the key is in the set.
InHolds(ctx, values) == \E v \in values : ctx[get_key(v)] = v[2]

\* The state of a terminal node.
TerminalVerdict(node_type, ctx) ==
    IF node_type.tag = "Value"
    THEN Verdict(ValueHolds(ctx, node_type.value))
    ELSE Verdict(InHolds(ctx, node_type.values))

\* A negative relation flips the predecessor's reading.
FlipNever(relation, state) == state
Flip(relation, state) ==
    IF relation = "Negative"
    THEN IF state = "Satisfied" THEN "Unsatisfied" ELSE "Satisfied"
    ELSE state

\* The contribution of an edge whose predecessor is InProgress.
ReentryReadingSatisfied == "Satisfied"
ReentryReading == "Unsatisfied"

\* The edges whose reading can block an AllAggregator: the Strong ones.
CountsEvery(strength) == TRUE
Counts(strength) == strength = "Strong"

\* The edges the evaluation follows: in Strict mode the Weak edges of an
\* AllAggregator are ignored entirely.
Traversed(node_type, mode, strength) ==
    \/ node_type.tag = "AnyAggregator"
    \/ mode = "BestEffort"
    \/ strength = "Strong"

\* AllAggregator: Satisfied iff all Strong-edge readings are satisfied.
AllVerdict(g, node, reading) ==
    Verdict(\A i \in 1..Len(node.preds) :
                Counts(Get(g.edges, node.preds[i]).strength)
                    => Get(reading, node.preds[i]) = "Satisfied")

\* AnyAggregator: Satisfied iff at least one reading is satisfied.
AnyVerdict(g, node, reading) ==
    Verdict(\E i \in 1..Len(node.preds) : Get(reading, node.preds[i]) = "Satisfied")

\* The start of an evaluation call that reads an unknown target as Unsatisfied.
start_unknown_unsatisfied(g, ctx, mode, target) ==
    IF ~ContainsKey(g.nodes, target)
    THEN [Idle EXCEPT !.phase = "done", !.ctx = ctx, !.mode = mode, !.target = target,
                      !.result = [err |-> "none", verdict |-> "Unsatisfied"]]
    ELSE [Idle EXCEPT !.phase = "running", !.ctx = ctx, !.mode = mode, !.target = target,
                      !.memo = [i \in 1..Len(g.nodes) |->
                                   IF i = target + 1 THEN "InProgress" ELSE "Unvisited"],
                      !.reading = [i \in 1..Len(g.edges) |-> "None"],
                      !.stack = <<[node |-> target, i |-> 1]>>]

\* The start of an evaluation call: NodeNotFound for an unknown target,
\* otherwise the target is InProgress and every other node Unvisited.
start(g, ctx, mode, target) ==
    IF ~ContainsKey(g.nodes, target)
    THEN [Idle EXCEPT !.phase = "done", !.ctx = ctx, !.mode = mode, !.target = target,
                      !.result = [err |-> "NodeNotFound", verdict |-> "none"]]
    ELSE [Idle EXCEPT !.phase = "running", !.ctx = ctx, !.mode = mode, !.target = target,
                      !.memo = [i \in 1..Len(g.nodes) |->
                                   IF i = target + 1 THEN "InProgress" ELSE "Unvisited"],
                      !.reading = [i \in 1..Len(g.edges) |-> "None"],
                      !.stack = <<[node |-> target, i |-> 1]>>]

\* One step of the evaluation of the node on top of the stack: a terminal
\* node is looked up in the context; an aggregator reads its next incoming
\* edge (descending into an Unvisited predecessor first) or, after its last
\* edge, takes its state from the readings.
step(g, ev) ==
    LET top == Len(ev.stack)
        n == ev.stack[top].node
        i == ev.stack[top].i
        node == Get(g.nodes, n)
        finish(v) ==
            [ev EXCEPT !.memo[n + 1] = v,
                       !.stack = SubSeq(@, 1, top - 1),
                       !.phase = IF top = 1 THEN "done" ELSE @,
                       !.result = IF top = 1 THEN [err |-> "none", verdict |-> v] ELSE @]
        advance(ev1) == [ev1 EXCEPT !.stack[top].i = @ + 1]
    IN  IF node.node_type.tag \in {"Value", "InAggregator"}
        THEN finish(TerminalVerdict(node.node_type, ev.ctx))
        ELSE IF i > Len(node.preds)
        THEN finish(IF node.node_type.tag = "AllAggregator"
                    THEN AllVerdict(g, node, ev.reading)
                    ELSE AnyVerdict(g, node, ev.reading))
        ELSE LET e == node.preds[i]
                 edge == Get(g.edges, e)
                 p == edge.pred
             IN  IF ~Traversed(node.node_type, ev.mode, edge.strength)
                 THEN advance(ev)
                 ELSE IF Get(ev.memo, p) = "Unvisited"
                 THEN [ev EXCEPT !.memo[p + 1] = "InProgress",
                                 !.stack = Append(@, [node |-> p, i |-> 1])]
                 ELSE IF Get(ev.memo, p) = "InProgress"
                 THEN advance([ev EXCEPT !.reading[e + 1] = ReentryReading,
                                         !.reentry = @ \cup {e}])
                 ELSE advance([ev EXCEPT !.reading[e + 1] =
                                             Flip(edge.relation, Get(ev.memo, p))])

\* The ids of the ALL and ANY aggregator nodes of B.
AggregatorIds(B) ==
    {n \in Ids(B.nodes) :
        Get(B.nodes, n).node_type.tag \in {"AllAggregator", "AnyAggregator"}}

\* The graphs to evaluate are made by the builder's operations, without
\* domains, info or metadata: Value nodes, aggregators over existing nodes,
\* and edges made directly from one aggregator to another or to itself.
EvalCall(out) ==
    /\ graph = NoGraph
    /\ Len(out.b.nodes) <= MaxEvalNodes
    /\ Cardinality(AggregatorIds(out.b)) <= MaxEvalAggregators
    /\ Len(out.b.edges) <= MaxEvalEdges
    /\ builder' = out.b
    /\ UNCHANGED <<graph, ret, eval, routervars>>

\* Node ids of the arena.
EvalNodeIds == Ids(builder.nodes)
EvalMemberLists == UNION {[1..n -> EvalNodeIds] : n \in 0..MaxMembers}

\* The (strength, relation) of the edges made directly: the two the
\* aggregator constructors do not make with MemberLabels.
EvalEdgeLabels == {<<"Strong", "Negative">>, <<"Weak", "Positive">>}

EvalMakeValueNode ==
    \E value \in NodeValues :
        EvalCall(make_value_node(builder, value, "None", << >>, "None"))

EvalMakeEdge ==
    \E p \in AggregatorIds(builder), s \in AggregatorIds(builder), l \in EvalEdgeLabels :
        EvalCall(make_edge(builder, p, s, l[1], l[2]))

EvalMakeAllAggregator ==
    \E ns \in EvalMemberLists, l \in MemberLabels :
        EvalCall(make_all_aggregator(
                     builder, [i \in 1..Len(ns) |-> <<ns[i], l[i][1], l[i][2]>>],
                     "None", "None", << >>))

EvalMakeAnyAggregator ==
    \E ns \in EvalMemberLists, l \in MemberLabels :
        EvalCall(make_any_aggregator(
                     builder, [i \in 1..Len(ns) |-> <<ns[i], l[i][1]>>],
                     "None", "None", << >>))

EvalBuild ==
    /\ graph = NoGraph
    /\ graph' = [built |-> TRUE, g |-> build(builder)]
    /\ UNCHANGED <<builder, ret, eval, routervars>>

\* An evaluation call is made on the built graph.
Evaluate ==
    /\ graph.built
    /\ eval.phase = "idle"
    /\ \E ctx \in Contexts, mode \in Modes, target \in 0..Len(graph.g.nodes) :
           eval' = start(graph.g, ctx, mode, target)
    /\ UNCHANGED <<builder, graph, ret, routervars>>

\* The evaluation call runs on.
EvalStep ==
    /\ eval.phase = "running"
    /\ eval' = step(graph.g, eval)
    /\ UNCHANGED <<builder, graph, ret, routervars>>

NextEval ==
    \/ EvalMakeValueNode
    \/ EvalMakeEdge
    \/ EvalMakeAllAggregator
    \/ EvalMakeAnyAggregator
    \/ EvalBuild
    \/ Evaluate
    \/ EvalStep

\* The evaluation is a synchronous call: once made, it runs on until it returns.
SpecEval == Init /\ [][NextEval]_vars /\ WF_vars(EvalStep)

\* ------------------------------------------------------------- merchant key store calls
\* Each method holds the mutex of merchant_key_store from its first statement
\* to its return, so a call is one step.
StoreCall(op, out) ==
    /\ merchant_key_store' = out.store
    /\ store_ret' = [op |-> op, res |-> out.res]
    /\ UNCHANGED <<graphvars, cachevars, othervars>>

InsertMerchantKeyStore ==
    \E x \in DomainMerchantKeyStores, key \in MasterKeys, converts \in BOOLEAN :
        StoreCall("insert", insert_merchant_key_store(merchant_key_store, x, key, converts))

GetMerchantKeyStore ==
    \E merchant_id \in MerchantIds, key \in MasterKeys :
        StoreCall("get",
                  get_merchant_key_store_by_merchant_id(merchant_key_store, merchant_id, key))

DeleteMerchantKeyStore ==
    \E merchant_id \in MerchantIds :
        StoreCall("delete",
                  delete_merchant_key_store_by_merchant_id(merchant_key_store, merchant_id))

NextStore ==
    \/ InsertMerchantKeyStore
    \/ GetMerchantKeyStore
    \/ DeleteMerchantKeyStore

SpecStore == Init /\ [][NextStore]_vars

\* ------------------------------------------------------------- cache.rs
\* Each await of cache.rs is a step; the tasks interleave between steps.

\* A get_or_populate_in_memory (via_memory) or get_or_populate_redis call for
\* type T begins.
GetStart ==
    /\ getter.pc \in {"idle", "done"}
    /\ getter.calls < MaxGetCalls
    /\ \E T \in CacheTypes, via_memory \in BOOLEAN :
           getter' = [GetterIdle EXCEPT
                        !.pc = IF via_memory THEN "cache_get" ELSE "redis_get",
                        !.calls = getter.calls + 1,
                        !.T = T,
                        !.via_memory = via_memory]
    /\ UNCHANGED <<graphvars, storevars, othervars, data_source, redis, in_memory, redactor>>

\* get_or_populate_in_memory: store.get_redis_conn()? and cache.get_val::<T>;
\* a hit is returned.
CacheGetVal ==
    /\ getter.pc = "cache_get"
    /\ \E connected \in BOOLEAN :
           getter' = IF ~connected
                     THEN [getter EXCEPT !.pc = "done", !.result = CacheErr("RedisError")]
                     ELSE IF in_memory.type = getter.T
                     THEN [getter EXCEPT !.pc = "done",
                                         !.result = CacheOk(in_memory.val)]
                     ELSE [getter EXCEPT !.pc = "redis_get"]
    /\ UNCHANGED <<graphvars, storevars, othervars, data_source, redis, in_memory, redactor>>

\* The pc after get_or_populate_redis has returned Ok to its caller.
AfterRedis(g) == IF g.via_memory THEN "cache_push" ELSE "done"

\* redis.get_and_deserialize_key::<T>(key): connected is whether Redis answers;
\* an entry serialized from another type does not deserialize as T.
get_and_deserialize_key(entry, T, connected) ==
    IF ~connected THEN CacheErr("RedisConnectionError")
    ELSE IF entry = NoEntry THEN CacheErr("NotFound")
    ELSE IF entry.type # T THEN CacheErr("JsonDeserializationFailed")
    ELSE CacheOk(entry.val)

\* The match with every read error sent to get_data_set_redis.
match_redis_val_populate_on_error(g, redis_val) ==
    IF redis_val.err # "none"
    THEN [g EXCEPT !.pc = "load", !.read = redis_val.err]
    ELSE [g EXCEPT !.pc = AfterRedis(g), !.read = "Ok", !.data = redis_val.val,
                   !.result = CacheOk(redis_val.val)]

\* get_or_populate_redis: the match on redis_val.
match_redis_val(g, redis_val) ==
    IF redis_val.err \in {"NotFound", "JsonDeserializationFailed"}
    THEN [g EXCEPT !.pc = "load", !.read = redis_val.err]
    ELSE IF redis_val.err # "none"
    THEN [g EXCEPT !.pc = "done", !.read = redis_val.err,
                   !.result = CacheErr("KVError")]
    ELSE [g EXCEPT !.pc = AfterRedis(g), !.read = "Ok", !.data = redis_val.val,
                   !.result = CacheOk(redis_val.val)]

\* get_or_populate_redis: the Redis read and the match on its result.
RedisGet ==
    /\ getter.pc = "redis_get"
    /\ \E connected \in BOOLEAN :
           getter' = match_redis_val(getter,
                                     get_and_deserialize_key(redis, getter.T, connected))
    /\ UNCHANGED <<graphvars, storevars, othervars, data_source, redis, in_memory, redactor>>

\* get_data_set_redis: fun().await?, the loader reads the data source.
Load ==
    /\ getter.pc = "load"
    /\ \E loaded \in BOOLEAN :
           getter' =
               IF loaded
               THEN [getter EXCEPT !.pc = "redis_set", !.loader = "ok", !.data = data_source]
               ELSE [getter EXCEPT !.pc = "done", !.loader = "failed",
                                   !.result = CacheErr("LoaderError")]
    /\ UNCHANGED <<graphvars, storevars, othervars, data_source, redis, in_memory, redactor>>

\* get_data_set_redis: redis.serialize_and_set_key(key, &data).
RedisSet ==
    /\ getter.pc = "redis_set"
    /\ \E written \in BOOLEAN :
           IF written
           THEN /\ redis' = Entry(getter.T, getter.data)
                /\ getter' = [getter EXCEPT !.pc = AfterRedis(getter), !.set = "ok",
                                            !.result = CacheOk(getter.data)]
           ELSE /\ redis' = redis
                /\ getter' = [getter EXCEPT !.pc = "done", !.set = "failed",
                                            !.result = CacheErr("KVError")]
    /\ UNCHANGED <<graphvars, storevars, othervars, data_source, in_memory, redactor>>

\* get_or_populate_in_memory: cache.push(key, val.clone()).
CachePush ==
    /\ getter.pc = "cache_push"
    /\ in_memory' = Entry(getter.T, getter.data)
    /\ getter' = [getter EXCEPT !.pc = "done", !.pushed = TRUE]
    /\ UNCHANGED <<graphvars, storevars, othervars, data_source, redis, redactor>>

\* A redact_cache call begins; given is whether in_memory is Some.
RedactStart ==
    /\ redactor.pc \in {"idle", "done"}
    /\ redactor.calls < MaxRedactCalls
    /\ \E given \in BOOLEAN :
           redactor' = [RedactorIdle EXCEPT !.pc = "closure",
                                            !.calls = redactor.calls + 1,
                                            !.given = given]
    /\ UNCHANGED <<graphvars, storevars, othervars, data_source, redis, in_memory, getter>>

\* The closure's result without the question mark: redact_cache goes on after
\* a failed closure.
closure_result_unchecked(r, updated, data) ==
    [r EXCEPT !.pc = "remove", !.closure = IF updated THEN "ok" ELSE "failed",
              !.data = IF updated THEN data ELSE -1]

\* redact_cache: let data = fun().await?;
closure_result(r, updated, data) ==
    IF updated
    THEN [r EXCEPT !.pc = "remove", !.closure = "ok", !.data = data]
    ELSE [r EXCEPT !.pc = "done", !.closure = "failed",
                   !.result = CacheErr("ClosureError")]

\* redact_cache: fun().await?, the closure updates the data source.
RedactClosure ==
    /\ redactor.pc = "closure"
    /\ \E updated \in BOOLEAN :
           /\ data_source' = IF updated THEN data_source + 1 ELSE data_source
           /\ redactor' = closure_result(redactor, updated, data_source + 1)
    /\ UNCHANGED <<graphvars, storevars, othervars, redis, in_memory, getter>>

\* redact_cache: store.get_redis_conn()? and the removal of the in-memory entry.
RedactRemove ==
    /\ redactor.pc = "remove"
    /\ \E connected \in BOOLEAN :
           IF ~connected
           THEN /\ in_memory' = in_memory
                /\ redactor' = [redactor EXCEPT !.pc = "done",
                                                !.result = CacheErr("RedisError")]
           ELSE /\ in_memory' = IF redactor.given THEN NoEntry ELSE in_memory
                /\ redactor' = [redactor EXCEPT !.pc = "delete",
                                                !.mem_removed = redactor.given]
    /\ UNCHANGED <<graphvars, storevars, othervars, data_source, redis, getter>>

\* redact_cache: redis_conn.delete_key(key) and the return.
RedactDelete ==
    /\ redactor.pc = "delete"
    /\ \E deleted \in BOOLEAN :
           IF deleted
           THEN /\ redis' = NoEntry
                /\ redactor' = [redactor EXCEPT !.pc = "done", !.redis_deleted = TRUE,
                                                !.result = CacheOk(redactor.data)]
           ELSE /\ redis' = redis
                /\ redactor' = [redactor EXCEPT !.pc = "done",
                                                !.result = CacheErr("KVError")]
    /\ UNCHANGED <<graphvars, storevars, othervars, data_source, in_memory, getter>>

NextCache ==
    \/ GetStart
    \/ CacheGetVal
    \/ RedisGet
    \/ Load
    \/ RedisSet
    \/ CachePush
    \/ RedactStart
    \/ RedactClosure
    \/ RedactRemove
    \/ RedactDelete

SpecCache == Init /\ [][NextCache]_vars

\* ------------------------------------------------- cache.rs, publishing

\* A publish_and_redact call (one key) or a publish_and_redact_multiple call
\* (any keys) begins.
PublishStart ==
    /\ publisher.pc \in {"idle", "done"}
    /\ publisher.calls < MaxPublishCalls
    /\ \E multiple \in BOOLEAN, keys \in SUBSET CacheKinds :
           /\ ~multiple => Cardinality(keys) = 1
           /\ publisher' = [PublisherIdle EXCEPT !.pc = "closure",
                                                 !.calls = publisher.calls + 1,
                                                 !.multiple = multiple,
                                                 !.keys = keys,
                                                 !.before = data_source]
    /\ UNCHANGED <<graphvars, storevars, workflowvars, vaultvars, cachevars, channel>>

\* The closure's result without the question mark: the call goes on to publish
\* after a failed closure.
publish_closure_result_unchecked(p, updated, data) ==
    [p EXCEPT !.pc = "connect", !.closure = IF updated THEN "ok" ELSE "failed",
              !.data = IF updated THEN data ELSE -1]

\* publish_and_redact(_multiple): let data = fun().await?;
publish_closure_result(p, updated, data) ==
    IF updated
    THEN [p EXCEPT !.pc = "connect", !.closure = "ok", !.data = data]
    ELSE [p EXCEPT !.pc = "done", !.closure = "failed",
                   !.result = CacheErr("ClosureError")]

\* publish_and_redact(_multiple): fun().await?, the closure updates the data
\* source.
PublishClosure ==
    /\ publisher.pc = "closure"
    /\ \E updated \in BOOLEAN :
           /\ data_source' = IF updated THEN data_source + 1 ELSE data_source
           /\ publisher' = publish_closure_result(publisher, updated, data_source + 1)
    /\ UNCHANGED <<graphvars, storevars, workflowvars, vaultvars, redis, in_memory, getter, redactor, channel>>

\* publish_into_redact_channel: store.get_redis_conn()? and the futures made
\* of the keys; try_join_all of no future is Ok.
PublishConnect ==
    /\ publisher.pc = "connect"
    /\ \E connected \in BOOLEAN :
           publisher' =
               IF ~connected
               THEN [publisher EXCEPT !.pc = "done", !.result = CacheErr("RedisError")]
               ELSE IF publisher.keys = {}
               THEN [publisher EXCEPT !.pc = "done",
                                      !.result = CacheOk(publisher.data)]
               ELSE [publisher EXCEPT !.pc = "publish", !.pending = publisher.keys]
    /\ UNCHANGED <<graphvars, storevars, workflowvars, vaultvars, cachevars, channel>>

\* publish_into_redact_channel: one of the futures of try_join_all completes;
\* the first error ends the call, the last success returns Ok(data).
PublishKey ==
    /\ publisher.pc = "publish"
    /\ \E key \in publisher.pending, sent \in BOOLEAN :
           IF sent
           THEN /\ channel' = [channel EXCEPT ![key] = @ + 1]
                /\ publisher' =
                       [publisher EXCEPT
                          !.pending = @ \ {key},
                          !.published = @ \cup {key},
                          !.pc = IF publisher.pending = {key} THEN "done" ELSE "publish",
                          !.result = IF publisher.pending = {key}
                                     THEN CacheOk(publisher.data) ELSE @]
           ELSE /\ channel' = channel
                /\ publisher' = [publisher EXCEPT !.pc = "done",
                                                  !.result = CacheErr("KVError")]
    /\ UNCHANGED <<graphvars, storevars, workflowvars, vaultvars, cachevars>>

NextPublish ==
    \/ PublishStart
    \/ PublishClosure
    \/ PublishConnect
    \/ PublishKey

SpecPublish == Init /\ [][NextPublish]_vars

\* ----------------------- payment_method_status_update.rs, the scheduler

ExecuteWorkflow ==
    /\ process.status = "Pending"
    /\ \E in \in RunInputs :
           LET r == RunOf(process, payment_method, in)
           IN  /\ process' = r.process
               /\ payment_method' = r.payment_method
               /\ run' = r.run
    /\ UNCHANGED <<graphvars, storevars, cachevars, pubvars, vaultvars>>

\* Another request changes the status of the payment method.
UpdateStatusElsewhere ==
    /\ \E status \in PaymentMethodStatuses \ {payment_method} :
           payment_method' = status
    /\ UNCHANGED <<graphvars, storevars, cachevars, pubvars, vaultvars, process, run>>

NextWorkflow ==
    \/ ExecuteWorkflow
    \/ UpdateStatusElsewhere

\* The scheduler runs every pending entry.
SpecWorkflow == Init /\ [][NextWorkflow]_vars /\ WF_vars(ExecuteWorkflow)

\* ------------------------------------------------------------- vault.rs

VaultCall(op, key, out) ==
    /\ locker' = out.locker
    /\ vault_ret' = [op |-> op, key |-> key, res |-> out.res, run |-> NoTokenizeRun]
    /\ UNCHANGED <<graphvars, storevars, cachevars, pubvars, workflowvars,
                   tokenize_tracker>>

CreateTokenize ==
    \E value1 \in LockerValues, encryption_key \in EncryptionKeys, in \in RedisInputs :
        VaultCall("create_tokenize", encryption_key,
                  create_tokenize(locker, value1, encryption_key, in))

GetTokenizedData ==
    \E encryption_key \in EncryptionKeys, in \in RedisInputs :
        VaultCall("get_tokenized_data", encryption_key,
                  get_tokenized_data(locker, encryption_key, in))

\* The clock ticks: the entry comes one tick closer to its expiry and is gone
\* when none is left.
Tick ==
    /\ locker # NoLockerEntry
    /\ locker' = IF locker.ttl = 1 THEN NoLockerEntry
                 ELSE [locker EXCEPT !.ttl = @ - 1]
    /\ UNCHANGED <<graphvars, storevars, cachevars, pubvars, workflowvars,
                   tokenize_tracker, vault_ret>>

\* The consumer picks the pending delete task up and runs
\* start_tokenize_data_workflow.
StartTokenizeDataWorkflow ==
    /\ tokenize_tracker.status = "Pending"
    /\ \E in \in TokenizeRunInputs :
           LET started == [tokenize_tracker EXCEPT !.status = "ProcessStarted"]
               out == start_tokenize_data_workflow(started, locker, in)
           IN  /\ tokenize_tracker' = out.process
               /\ locker' = out.locker
               /\ vault_ret' =
                      [ op |-> "start_tokenize_data_workflow", key |-> "none",
                        res |-> VaultErr("none"),
                        run |-> [ retry_count |-> tokenize_tracker.retry_count,
                                  present |-> locker # NoLockerEntry,
                                  deleted |-> locker # NoLockerEntry
                                              /\ out.locker = NoLockerEntry,
                                  delete |-> out.delete,
                                  calls |-> out.calls,
                                  res |-> out.res ] ]
    /\ UNCHANGED <<graphvars, storevars, cachevars, pubvars, workflowvars>>

NextVault ==
    \/ CreateTokenize
    \/ GetTokenizedData
    \/ Tick
    \/ StartTokenizeDataWorkflow

SpecVault == Init /\ [][NextVault]_vars

\* ------------------------------------------------------------- properties
\* The ids of the Value nodes of the arena that hold value v.
ValueNodesOf(B, v) == {n \in Ids(B.nodes) : Get(B.nodes, n).node_type = ValueType(v)}

\* The ids of the edges of the arena that go from p to s.
EdgesOfPair(B, p, s) ==
    {e \in Ids(B.edges) : Get(B.edges, e).pred = p /\ Get(B.edges, e).succ = s}

\* The ids of the domain arena's entries registered under ident.
DomainsOf(B, ident) ==
    {d \in Ids(B.domain) : Get(B.domain, d).domain_identifier = ident}

\* The domain identifiers of the list that are not registered.
Unregistered(B, idents) ==
    {idents[i] : i \in 1..Len(idents)} \ DOMAIN B.domain_identifier_map

ConstructionOps ==
    {"make_value_node", "make_edge", "make_all_aggregator", "make_any_aggregator",
     "make_in_aggregator"}

\* C1: in every reachable builder state the node arena holds at most one Value
\* node per value; a make_value_node call for a value that has a node returns
\* that node's id; and of two calls in a row with the same value (whatever the
\* info, metadata and domains), if the first returns an id the second returns
\* the same id and the arena then holds exactly one Value node for the value.
C1_DedupIdempotence ==
    \A v \in NodeValues :
        /\ Cardinality(ValueNodesOf(builder, v)) <= 1
        /\ \A a1 \in Attachments, a2 \in Attachments :
             LET r1 == make_value_node(builder, v, a1.info, a1.domains, a1.metadata)
                 r2 == make_value_node(r1.b, v, a2.info, a2.domains, a2.metadata)
             IN  /\ ValueNodesOf(builder, v) # {} =>
                        /\ IsOk(r1.res)
                        /\ r1.res.id \in ValueNodesOf(builder, v)
                 /\ IsOk(r1.res) =>
                        /\ r2.res = r1.res
                        /\ ValueNodesOf(r2.b, v) = {r1.res.id}

\* C1 witness: each value has its node and a make_value_node call has just
\* returned an id without adding anything.
C1_Witness ==
    /\ ret.op = "make_value_node"
    /\ IsOk(ret.res)
    /\ ~ret.changed
    /\ \A v \in NodeValues : Cardinality(ValueNodesOf(builder, v)) = 1
    /\ Get(builder.nodes, ret.res.id).node_type.tag = "Value"

\* C2: in every reachable builder state, make_edge(p, s, strength, relation)
\* for a pair whose stored edge has that strength and that relation returns
\* the stored edge's id and leaves the builder as it was.
C2_EdgeIdempotent ==
    \A p \in NodeIdArgs, s \in NodeIdArgs, strength \in Strengths, relation \in Relations :
        \A e \in EdgesOfPair(builder, p, s) :
            (Get(builder.edges, e).strength = strength /\ Get(builder.edges, e).relation = relation)
                => make_edge(builder, p, s, strength, relation) = Out(builder, Ok(e))

\* C2 witness: make_edge has returned the id of a stored edge and changed nothing.
C2_Witness ==
    /\ ret.op = "make_edge"
    /\ IsOk(ret.res)
    /\ ~ret.changed
    /\ ContainsKey(builder.edges, ret.res.id)

\* C3: in every reachable builder state, make_edge(p, s, strength, relation)
\* for a pair whose stored edge differs in strength or in relation returns
\* ConflictingEdgeCreated and leaves the builder, the stored edge included, as
\* it was.
C3_EdgeConflict ==
    \A p \in NodeIdArgs, s \in NodeIdArgs, strength \in Strengths, relation \in Relations :
        \A e \in EdgesOfPair(builder, p, s) :
            (Get(builder.edges, e).strength # strength \/ Get(builder.edges, e).relation # relation)
                => LET out == make_edge(builder, p, s, strength, relation)
                   IN  /\ out.res = Err("ConflictingEdgeCreated")
                       /\ Get(out.b.edges, e) = Get(builder.edges, e)
                       /\ out.b = builder

\* C3 witness: make_edge has returned ConflictingEdgeCreated.
C3_Witness ==
    /\ ret.op = "make_edge"
    /\ ret.res = Err("ConflictingEdgeCreated")
    /\ Len(builder.edges) >= 1

\* C4: a construction operation that returns an error has left the builder as
\* it was before the call.
C4_FailedCallLeavesBuilder ==
    (ret.op \in ConstructionOps /\ ~IsOk(ret.res)) => ~ret.changed

\* C5: in every reachable builder state, make_edge with a pred id or a succ id
\* that is not in the node arena returns NodeNotFound and leaves the builder as
\* it was, and a make_edge after it between two nodes of the arena that have no
\* edge yet returns a new edge id and stores that edge.
C5_NodeNotFound ==
    \A p \in NodeIdArgs, s \in NodeIdArgs, strength \in Strengths, relation \in Relations :
        (~ContainsKey(builder.nodes, p) \/ ~ContainsKey(builder.nodes, s)) =>
            LET out == make_edge(builder, p, s, strength, relation)
            IN  /\ out = Out(builder, Err("NodeNotFound"))
                /\ \A p2 \in Ids(builder.nodes), s2 \in Ids(builder.nodes),
                      st2 \in Strengths, r2 \in Relations :
                       EdgesOfPair(builder, p2, s2) = {} =>
                           LET o2 == make_edge(out.b, p2, s2, st2, r2)
                           IN  /\ o2.res = Ok(Len(builder.edges))
                               /\ Len(o2.b.edges) = Len(builder.edges) + 1
                               /\ Get(o2.b.edges, o2.res.id) =
                                      [strength |-> st2, relation |-> r2,
                                       pred |-> p2, succ |-> s2]

\* C5 witness: make_edge has returned NodeNotFound on a builder that has a node
\* between which and itself an edge can still be made.
C5_Witness ==
    /\ ret.op = "make_edge"
    /\ ret.res = Err("NodeNotFound")
    /\ ~ret.changed
    /\ \E n \in Ids(builder.nodes) : EdgesOfPair(builder, n, n) = {}

\* The pred and the succ of every edge are ids of the node arena.
NoDanglingEndpoint(nodes, edges) ==
    \A e \in Ids(edges) :
        ContainsKey(nodes, Get(edges, e).pred) /\ ContainsKey(nodes, Get(edges, e).succ)

\* C6: in every reachable builder state, and in the graph build() produces,
\* the pred and the succ of every stored edge are ids of nodes of the arena.
C6_NoDanglingEdge ==
    /\ NoDanglingEndpoint(builder.nodes, builder.edges)
    /\ graph.built => NoDanglingEndpoint(graph.g.nodes, graph.g.edges)

\* C6 witness: a graph has been built that holds an edge.
C6_Witness ==
    /\ graph.built
    /\ Len(graph.g.edges) >= 1
    /\ Len(graph.g.nodes) >= 2

\* C7: in every reachable builder state the edge arena holds at most one edge
\* for each ordered pair (pred, succ).
C7_OneEdgePerPair ==
    \A e1 \in Ids(builder.edges), e2 \in Ids(builder.edges) :
        ( /\ Get(builder.edges, e1).pred = Get(builder.edges, e2).pred
          /\ Get(builder.edges, e1).succ = Get(builder.edges, e2).succ ) => e1 = e2

\* C7 witness: an aggregator constructor has made an edge and a make_edge call
\* for a pair that has an edge has been refused.
C7_Witness ==
    /\ ret.op = "make_edge"
    /\ ~ret.changed
    /\ ret.res = Err("ConflictingEdgeCreated")
    /\ \E e \in Ids(builder.edges) :
           Get(builder.nodes, Get(builder.edges, e).succ).node_type.tag
               \in {"AllAggregator", "AnyAggregator"}

\* C8 as stated: in every reachable builder state, make_value_node with a
\* domain identifier that is not registered returns DomainNotFound, whether or
\* not the value has a node.
C8_DomainsBeforeDedup ==
    \A v \in NodeValues, a \in Attachments :
        Unregistered(builder, a.domains) # {} =>
            make_value_node(builder, v, a.info, a.domains, a.metadata).res
                = Err("DomainNotFound")

\* C8 amended: in every reachable builder state, make_value_node with a domain
\* identifier that is not registered returns DomainNotFound when the value has
\* no node, and the id of the value's node when it has one; the builder is left
\* as it was in both cases.
C8_DedupBeforeDomains ==
    \A v \in NodeValues, a \in Attachments :
        Unregistered(builder, a.domains) # {} =>
            LET out == make_value_node(builder, v, a.info, a.domains, a.metadata)
            IN  /\ out.b = builder
                /\ ValueNodesOf(builder, v) = {} => out.res = Err("DomainNotFound")
                /\ \A n \in ValueNodesOf(builder, v) : out.res = Ok(n)

\* C8 witness: make_value_node has returned DomainNotFound on a builder that
\* holds a Value node, for which the same call returns the node's id.
C8_Witness ==
    /\ ret.op = "make_value_node"
    /\ ret.res = Err("DomainNotFound")
    /\ \E v \in NodeValues : ValueNodesOf(builder, v) # {}

\* C9: in every reachable builder state, make_value_node for a value that has
\* a node returns that node's id, whatever the info, metadata and domains
\* given, and leaves the builder as it was: the node, its domain ids, the
\* info and metadata slots and the arenas' lengths.
C9_FirstWriterWins ==
    \A v \in NodeValues, a \in Attachments :
        \A n \in ValueNodesOf(builder, v) :
            LET out == make_value_node(builder, v, a.info, a.domains, a.metadata)
            IN  /\ out.res = Ok(n)
                /\ Get(out.b.nodes, n) = Get(builder.nodes, n)
                /\ Get(out.b.node_info, n) = Get(builder.node_info, n)
                /\ Get(out.b.node_metadata, n) = Get(builder.node_metadata, n)
                /\ Len(out.b.nodes) = Len(builder.nodes)
                /\ Len(out.b.node_info) = Len(builder.node_info)
                /\ Len(out.b.node_metadata) = Len(builder.node_metadata)
                /\ out.b = builder

\* C9 witness: make_value_node has returned, without a change, the id of a
\* node that keeps the info, the metadata and the domain of its first call.
C9_Witness ==
    /\ ret.op = "make_value_node"
    /\ IsOk(ret.res)
    /\ ~ret.changed
    /\ Get(builder.node_info, ret.res.id) = "info1"
    /\ Get(builder.node_metadata, ret.res.id) = "meta1"
    /\ Len(Get(builder.nodes, ret.res.id).domain_ids) = 1

\* C10: in every reachable builder state, two make_domain calls in a row with
\* one identifier both return Ok with the same id, the second changes nothing,
\* the two add at most one entry, the arena then holds one entry for the
\* identifier, and its description is the one first registered.
C10_DomainAliasing ==
    \A ident \in DomainIdentifiers, da \in DomainDescriptions, db \in DomainDescriptions :
        LET r1 == make_domain(builder, ident, da)
            r2 == make_domain(r1.b, ident, db)
        IN  /\ IsOk(r1.res)
            /\ r2.res = r1.res
            /\ r2.b = r1.b
            /\ Len(r2.b.domain) =
                   Len(builder.domain) + (IF DomainsOf(builder, ident) = {} THEN 1 ELSE 0)
            /\ DomainsOf(r2.b, ident) = {r1.res.id}
            /\ Get(r2.b.domain, r1.res.id).domain_description =
                   (IF DomainsOf(builder, ident) = {} THEN da
                    ELSE Get(builder.domain, r1.res.id).domain_description)

\* C10 witness: make_domain has returned the id of a registered identifier
\* without a change, with two identifiers registered.
C10_Witness ==
    /\ ret.op = "make_domain"
    /\ IsOk(ret.res)
    /\ ~ret.changed
    /\ Len(builder.domain) = 2

\* The member lists the aggregator constructors are given in a state.
AllMemberLists ==
    {[i \in 1..Len(ns) |-> <<ns[i], l[i][1], l[i][2]>>] :
        ns \in MemberNodeLists, l \in MemberLabels}
AnyMemberLists ==
    {[i \in 1..Len(ns) |-> <<ns[i], l[i][1]>>] : ns \in MemberNodeLists, l \in MemberLabels}

\* C11: in every reachable builder state, every edge whose successor is an
\* AnyAggregator node has strength Strong.
C11_AnyEdgesStrong ==
    \A e \in Ids(builder.edges) :
        Get(builder.nodes, Get(builder.edges, e).succ).node_type.tag = "AnyAggregator"
            => Get(builder.edges, e).strength = "Strong"

\* The positions of seq that hold a value no earlier position holds.
FirstPositions(seq) == {i \in 1..Len(seq) : \A j \in 1..(i - 1) : seq[j] # seq[i]}

\* seq without the later occurrences of a value.
FirstOccurrences(seq) ==
    [k \in 1..Cardinality(FirstPositions(seq)) |->
        seq[CHOOSE i \in FirstPositions(seq) :
                Cardinality({j \in FirstPositions(seq) : j <= i}) = k]]

\* C12: in every reachable builder state, a make_all_aggregator call that
\* returns Ok returns the id of one new AllAggregator node, leaves the other
\* nodes' types as they were, and the builder then holds, for every member, an
\* edge from the member to the new node with the member's relation and
\* strength; the new node's preds are those edges, one per member node in
\* member order, and it has no outgoing edge.
C12_AllAggregator ==
    \A members \in AllMemberLists, a \in Attachments :
        LET out == make_all_aggregator(builder, members, a.info, a.metadata, a.domains)
            id == Len(builder.nodes)
            node == Get(out.b.nodes, id)
            member_ids == FirstOccurrences([i \in 1..Len(members) |-> members[i][1]])
        IN  IsOk(out.res) =>
                /\ out.res = Ok(id)
                /\ Len(out.b.nodes) = Len(builder.nodes) + 1
                /\ \A n \in Ids(builder.nodes) :
                       Get(out.b.nodes, n).node_type = Get(builder.nodes, n).node_type
                /\ node.node_type = AllAggregatorType
                /\ \A i \in 1..Len(members) :
                       \E e \in Ids(out.b.edges) :
                           Get(out.b.edges, e) =
                               [strength |-> members[i][3], relation |-> members[i][2],
                                pred |-> members[i][1], succ |-> id]
                /\ Len(node.preds) = Len(member_ids)
                /\ \A k \in 1..Len(node.preds) :
                       /\ node.preds[k] = Len(builder.edges) + k - 1
                       /\ Get(out.b.edges, node.preds[k]).pred = member_ids[k]
                       /\ Get(out.b.edges, node.preds[k]).succ = id
                /\ Len(out.b.edges) = Len(builder.edges) + Len(member_ids)
                /\ node.succs = << >>

\* C12 witness: make_all_aggregator has returned a new AllAggregator node whose
\* one incoming edge keeps the Negative relation and the Weak strength given.
C12_Witness ==
    /\ ret.op = "make_all_aggregator"
    /\ IsOk(ret.res)
    /\ ret.changed
    /\ Get(builder.nodes, ret.res.id).node_type = AllAggregatorType
    /\ Len(Get(builder.nodes, ret.res.id).preds) = 1
    /\ Get(builder.edges, Get(builder.nodes, ret.res.id).preds[1]).relation = "Negative"
    /\ Get(builder.edges, Get(builder.nodes, ret.res.id).preds[1]).strength = "Weak"

\* C13: in every reachable builder state, make_all_aggregator and
\* make_any_aggregator with a member id that is not in the node arena return
\* NodeNotFound and leave the builder as it was, also when a domain identifier
\* of the call is not registered.
C13_AggregatorNodeNotFound ==
    \A a \in Attachments :
        /\ \A members \in AllMemberLists :
               (\E i \in 1..Len(members) : ~ContainsKey(builder.nodes, members[i][1]))
                   => make_all_aggregator(builder, members, a.info, a.metadata, a.domains)
                          = Out(builder, Err("NodeNotFound"))
        /\ \A members \in AnyMemberLists :
               (\E i \in 1..Len(members) : ~ContainsKey(builder.nodes, members[i][1]))
                   => make_any_aggregator(builder, members, a.info, a.metadata, a.domains)
                          = Out(builder, Err("NodeNotFound"))

\* C13 witness: an aggregator constructor has returned NodeNotFound on a
\* builder that has a node and in which domain d1 is not registered.
C13_Witness ==
    /\ ret.op \in {"make_all_aggregator", "make_any_aggregator"}
    /\ ret.res = Err("NodeNotFound")
    /\ ~ret.changed
    /\ Len(builder.nodes) >= 1
    /\ "d1" \notin DOMAIN builder.domain_identifier_map

\* C14: in every reachable builder state, make_in_aggregator returns
\* NoInAggregatorValues for an empty list and MalformedGraph for a list with
\* two keys, leaving the builder as it was; a call that returns Ok returns the
\* id of one new InAggregator node that holds the set of the values given,
\* which share one key.
C14_InAggregator ==
    \A values \in InValueLists, a \in Attachments :
        LET out == make_in_aggregator(builder, values, a.info, a.metadata, a.domains)
            keys == {get_key(values[i]) : i \in 1..Len(values)}
        IN  /\ Len(values) = 0 => out = Out(builder, Err("NoInAggregatorValues"))
            /\ Cardinality(keys) > 1 => out = Out(builder, Err("MalformedGraph"))
            /\ IsOk(out.res) =>
                   /\ out.res = Ok(Len(builder.nodes))
                   /\ Len(out.b.nodes) = Len(builder.nodes) + 1
                   /\ Get(out.b.nodes, out.res.id).node_type.tag = "InAggregator"
                   /\ Get(out.b.nodes, out.res.id).node_type.values
                          = {values[i] : i \in 1..Len(values)}
                   /\ Cardinality(keys) = 1
            /\ (Cardinality(keys) = 1 /\ Unregistered(builder, a.domains) = {}) => IsOk(out.res)

\* C14 witness: make_in_aggregator has returned a new InAggregator node that
\* holds two values of one key.
C14_Witness ==
    /\ ret.op = "make_in_aggregator"
    /\ IsOk(ret.res)
    /\ ret.changed
    /\ Get(builder.nodes, ret.res.id).node_type.tag = "InAggregator"
    /\ Cardinality(Get(builder.nodes, ret.res.id).node_type.values) = 2

\* The ids of the InAggregator nodes of B.
InNodes(B) == {n \in Ids(B.nodes) : Get(B.nodes, n).node_type.tag = "InAggregator"}

\* C15: in every reachable builder state, every InAggregator node has an
\* empty preds list and is the succ of no stored edge.
C15_InNodesHaveNoPreds ==
    \A n \in InNodes(builder) :
        /\ Get(builder.nodes, n).preds = << >>
        /\ \A e \in Ids(builder.edges) : Get(builder.edges, e).succ # n

\* C16: once build() has run, the graph's domain, node and edge arenas, value
\* map, node info and node metadata are those of the builder at the call, and
\* no construction operation has been applied since.
C16_BuildMovesArenas ==
    graph.built =>
        /\ ret.op = "build"
        /\ graph.g.domain = builder.domain
        /\ graph.g.nodes = builder.nodes
        /\ graph.g.edges = builder.edges
        /\ graph.g.value_map = builder.value_map
        /\ graph.g.node_info = builder.node_info
        /\ graph.g.node_metadata = builder.node_metadata
        /\ DOMAIN graph.g =
               {"domain", "nodes", "edges", "value_map", "node_info", "node_metadata"}

\* C16 witness: a graph has been built from a builder that holds a domain, a
\* Value node with its info and metadata, and an edge.
C16_Witness ==
    /\ graph.built
    /\ Len(graph.g.domain) = 1
    /\ Len(graph.g.edges) = 1
    /\ DOMAIN graph.g.value_map # {}
    /\ graph.g.node_info = <<"info1">>
    /\ graph.g.node_metadata = <<"meta1">>

\* A is a prefix of B.
IsPrefix(A, B) == Len(A) <= Len(B) /\ \A i \in 1..Len(A) : B[i] = A[i]

\* Every entry of B0 is in B1 under its id: domains and edges as they were,
\* nodes with their type and domain ids and with preds and succs extended at
\* the end only.
Extends(B0, B1) ==
    /\ IsPrefix(B0.domain, B1.domain)
    /\ IsPrefix(B0.edges, B1.edges)
    /\ Len(B0.nodes) <= Len(B1.nodes)
    /\ \A n \in Ids(B0.nodes) :
           /\ Get(B1.nodes, n).node_type = Get(B0.nodes, n).node_type
           /\ Get(B1.nodes, n).domain_ids = Get(B0.nodes, n).domain_ids
           /\ IsPrefix(Get(B0.nodes, n).preds, Get(B1.nodes, n).preds)
           /\ IsPrefix(Get(B0.nodes, n).succs, Get(B1.nodes, n).succs)

\* The arena whose id an operation returns.
ArenaOf(B, op) ==
    IF op = "make_domain" THEN B.domain
    ELSE IF op = "make_edge" THEN B.edges
    ELSE B.nodes

\* The outcomes of the construction calls that can be made on the builder.
Outcomes ==
    {[op |-> "make_domain", out |-> make_domain(builder, ident, desc)] :
        ident \in DomainIdentifiers, desc \in DomainDescriptions}
    \cup {[op |-> "make_value_node",
           out |-> make_value_node(builder, value, a.info, a.domains, a.metadata)] :
        value \in NodeValues, a \in Attachments}
    \cup {[op |-> "make_edge", out |-> make_edge(builder, ps[1], ps[2], l[1], l[2])] :
        ps \in NodeIdArgs \X NodeIdArgs, l \in Strengths \X Relations}
    \cup {[op |-> "make_all_aggregator",
           out |-> make_all_aggregator(builder, members, a.info, a.metadata, a.domains)] :
        members \in AllMemberLists, a \in Attachments}
    \cup {[op |-> "make_any_aggregator",
           out |-> make_any_aggregator(builder, members, a.info, a.metadata, a.domains)] :
        members \in AnyMemberLists, a \in Attachments}
    \cup {[op |-> "make_in_aggregator",
           out |-> make_in_aggregator(builder, values, a.info, a.metadata, a.domains)] :
        values \in InValueLists, a \in Attachments}

\* C17: in every reachable builder state, every construction call keeps the
\* entries of the three arenas under their ids (nothing is removed; a node
\* keeps its type and domain ids, its preds and succs grow at the end only),
\* and a call that returns Ok returns either an id handed out before or, when
\* it has added the entry, the next id of its arena, above every id handed out
\* before.
C17_AppendOnly ==
    \A o \in Outcomes :
        /\ Extends(builder, o.out.b)
        /\ IsOk(o.out.res) =>
               \/ o.out.res.id \in Ids(ArenaOf(builder, o.op))
               \/ /\ o.out.res.id = Len(ArenaOf(builder, o.op))
                  /\ o.out.res.id \in Ids(ArenaOf(o.out.b, o.op))

\* C17 witness: after two nodes with ids 0 and 1, make_edge has returned the
\* first edge id and appended it to the preds of node 1 and the succs of node 0.
C17_Witness ==
    /\ ret.op = "make_edge"
    /\ ret.res = Ok(0)
    /\ ret.changed
    /\ Len(builder.nodes) = 2
    /\ Get(builder.nodes, 1).preds = <<0>>
    /\ Get(builder.nodes, 0).succs = <<0>>

\* The nodes whose state the evaluation call has settled.
FinalNodes == {n \in Ids(eval.memo) : Get(eval.memo, n) \in {"Satisfied", "Unsatisfied"}}

\* The settled ALL and ANY aggregator nodes of the evaluated graph.
FinalAggregators ==
    {n \in FinalNodes :
        Get(graph.g.nodes, n).node_type.tag \in {"AllAggregator", "AnyAggregator"}}

\* The ids of the incoming edges of node n of the evaluated graph.
PredEdges(n) ==
    {Get(graph.g.nodes, n).preds[i] : i \in 1..Len(Get(graph.g.nodes, n).preds)}

\* The incoming edges of n that the evaluation follows in the call's mode.
FollowedEdges(n) ==
    {e \in PredEdges(n) :
        \/ Get(graph.g.nodes, n).node_type.tag = "AnyAggregator"
        \/ eval.mode = "BestEffort"
        \/ Get(graph.g.edges, e).strength = "Strong"}

\* Edge e was read as satisfied.
ReadSatisfied(e) == Get(eval.reading, e) = "Satisfied"

\* The state an aggregator takes from the readings of its incoming edges.
FromReadings(n) ==
    IF Get(graph.g.nodes, n).node_type.tag = "AllAggregator"
    THEN \A e \in PredEdges(n) :
             Get(graph.g.edges, e).strength = "Strong" => ReadSatisfied(e)
    ELSE \E e \in PredEdges(n) : ReadSatisfied(e)

\* C18 (safety part): an edge whose predecessor was InProgress when it was
\* read contributes Unsatisfied, and the node it goes into still reads every
\* other edge it follows from the settled state of that edge's predecessor and
\* takes its final state from all its readings.
C18_ReentryUnsatisfied ==
    /\ \A e \in eval.reentry : Get(eval.reading, e) = "Unsatisfied"
    /\ \A n \in FinalAggregators :
           /\ \A e \in FollowedEdges(n) :
                  \/ e \in eval.reentry
                  \/ /\ Get(graph.g.edges, e).pred \in FinalNodes
                     /\ Get(eval.reading, e) \in {"Satisfied", "Unsatisfied"}
                     /\ ReadSatisfied(e) =
                            ((Get(eval.memo, Get(graph.g.edges, e).pred) = "Satisfied")
                                 # (Get(graph.g.edges, e).relation = "Negative"))
           /\ (Get(eval.memo, n) = "Satisfied") = FromReadings(n)
    /\ eval.phase = "done" /\ eval.result.err = "none" =>
           /\ eval.stack = << >>
           /\ eval.target \in FinalNodes
           /\ eval.result.verdict = Get(eval.memo, eval.target)

\* C18: every evaluation call on every graph of the builder, graphs with a
\* self-loop or a two-node cycle included, returns; re-entering a node that is
\* InProgress contributes Unsatisfied for that edge, and the node's final state
\* is still computed from its other edges.
C18_EvaluationTerminates ==
    /\ []C18_ReentryUnsatisfied
    /\ (eval.phase = "running") ~> (eval.phase = "done")

\* C18 witness: an evaluation has returned Satisfied for an ANY aggregator
\* that has an edge from itself, read as Unsatisfied on re-entry, and another
\* edge, read as Satisfied.
C18_Witness ==
    /\ eval.phase = "done"
    /\ eval.result = [err |-> "none", verdict |-> "Satisfied"]
    /\ \E e \in eval.reentry :
           /\ Get(graph.g.edges, e).succ = eval.target
           /\ Get(graph.g.edges, e).pred = eval.target
           /\ \E e2 \in PredEdges(eval.target) \ eval.reentry : ReadSatisfied(e2)

\* The settled aggregators all of whose incoming edges are Strong.
StrongOnly(n) == \A e \in PredEdges(n) : Get(graph.g.edges, e).strength = "Strong"

\* The reading of edge e: Unsatisfied on re-entry, otherwise the state of the
\* predecessor, flipped by a Negative relation.
ReadingOf(e) ==
    IF e \in eval.reentry THEN FALSE
    ELSE (Get(eval.memo, Get(graph.g.edges, e).pred) = "Satisfied")
             # (Get(graph.g.edges, e).relation = "Negative")

\* C19: in every evaluation, a settled aggregator all of whose incoming edges
\* are Strong is Satisfied iff every predecessor reading (flipped by a Negative
\* relation) is satisfied when it is an AllAggregator, and iff at least one is
\* when it is an AnyAggregator; with two readings, one satisfied and one not,
\* ALL is Unsatisfied and ANY is Satisfied.
C19_AllAnyOverStrongEdges ==
    \A n \in FinalAggregators :
        StrongOnly(n) =>
            /\ Get(graph.g.nodes, n).node_type.tag = "AllAggregator" =>
                   (Get(eval.memo, n) = "Satisfied") = (\A e \in PredEdges(n) : ReadingOf(e))
            /\ Get(graph.g.nodes, n).node_type.tag = "AnyAggregator" =>
                   (Get(eval.memo, n) = "Satisfied") = (\E e \in PredEdges(n) : ReadingOf(e))
            /\ (\E e1, e2 \in PredEdges(n) : ReadingOf(e1) /\ ~ReadingOf(e2)) =>
                   Get(eval.memo, n) =
                       IF Get(graph.g.nodes, n).node_type.tag = "AllAggregator"
                       THEN "Unsatisfied" ELSE "Satisfied"

\* C19 witness: an evaluation has returned Unsatisfied for an AllAggregator
\* with two Strong edges from Value nodes, the first read as satisfied and the
\* second as unsatisfied.
C19_Witness ==
    /\ eval.phase = "done"
    /\ eval.result = [err |-> "none", verdict |-> "Unsatisfied"]
    /\ Get(graph.g.nodes, eval.target).node_type = AllAggregatorType
    /\ StrongOnly(eval.target)
    /\ Len(Get(graph.g.nodes, eval.target).preds) = 2
    /\ ReadSatisfied(Get(graph.g.nodes, eval.target).preds[1])
    /\ ~ReadSatisfied(Get(graph.g.nodes, eval.target).preds[2])
    /\ eval.reentry = {}

\* C20: in every evaluation, in Strict and in BestEffort mode, a settled
\* AllAggregator is Satisfied iff the readings of all its Strong edges are
\* satisfied, whatever the readings of its Weak edges.
C20_WeakEdgesNeverBlock ==
    \A n \in FinalAggregators :
        Get(graph.g.nodes, n).node_type.tag = "AllAggregator" =>
            /\ eval.mode \in Modes
            /\ (Get(eval.memo, n) = "Satisfied") =
                   (\A e \in PredEdges(n) :
                        Get(graph.g.edges, e).strength = "Strong" => ReadingOf(e))
            /\ \A e \in PredEdges(n) :
                   (Get(graph.g.edges, e).strength = "Strong" \/ eval.mode = "BestEffort")
                       => ReadSatisfied(e) = ReadingOf(e)

\* C20 witness: a BestEffort evaluation has returned Satisfied for an
\* AllAggregator that has a Weak edge read as Unsatisfied and a Strong edge
\* read as Satisfied.
C20_Witness ==
    /\ eval.phase = "done"
    /\ eval.mode = "BestEffort"
    /\ eval.result = [err |-> "none", verdict |-> "Satisfied"]
    /\ Get(graph.g.nodes, eval.target).node_type = AllAggregatorType
    /\ \E e \in PredEdges(eval.target) :
           /\ Get(graph.g.edges, e).strength = "Weak"
           /\ Get(eval.reading, e) = "Unsatisfied"
    /\ \E e \in PredEdges(eval.target) :
           /\ Get(graph.g.edges, e).strength = "Strong"
           /\ ReadSatisfied(e)

\* C21 (state part): an evaluation that has returned holds NodeNotFound iff
\* its target is not a node of the graph and a Satisfied or Unsatisfied
\* verdict otherwise; a running evaluation holds no error; a settled Value
\* node whose key has no context entry is Unsatisfied, and an edge read on
\* re-entry is Unsatisfied.
C21_ErrorOnlyForUnknownTarget ==
    /\ eval.result.err \in {"none", "NodeNotFound"}
    /\ eval.phase = "running" => eval.result.err = "none"
    /\ eval.phase = "done" =>
           /\ (eval.result.err = "NodeNotFound") = ~ContainsKey(graph.g.nodes, eval.target)
           /\ eval.result.err = "none" => eval.result.verdict \in {"Satisfied", "Unsatisfied"}
           /\ eval.result.err = "NodeNotFound" => eval.result.verdict = "none"
    /\ \A n \in FinalNodes :
           (/\ Get(graph.g.nodes, n).node_type.tag = "Value"
            /\ eval.ctx[get_key(Get(graph.g.nodes, n).node_type.value.v)] = 0)
               => Get(eval.memo, n) = "Unsatisfied"
    /\ \A e \in eval.reentry : Get(eval.reading, e) = "Unsatisfied"

\* C21: evaluation returns an error only for a target that is not in the
\* graph (NodeNotFound); for an existing target it returns a verdict, cycles
\* and missing context entries being read as Unsatisfied; and no step of an
\* evaluation changes the graph.
C21_EvaluationErrors ==
    /\ []C21_ErrorOnlyForUnknownTarget
    /\ [][eval' # eval => graph' = graph /\ builder' = builder]_vars

\* C21 witness: an evaluation of a target that is not in a graph of at least
\* one node has returned NodeNotFound.
C21_Witness ==
    /\ eval.phase = "done"
    /\ eval.result.err = "NodeNotFound"
    /\ Len(graph.g.nodes) >= 1
    /\ eval.target = Len(graph.g.nodes)

\* The merchant ids that have an entry in the store.
StoredIds == {merchant_key_store[i].merchant_id : i \in 1..Len(merchant_key_store)}

\* The store has at most one entry per merchant id; an insert for a stored
\* merchant id returns DuplicateValue and leaves the store as it was; a get
\* for a merchant id that is not stored returns ValueNotFound.
StoreKeepsOneEntryPerMerchant ==
    /\ \A m \in MerchantIds : Cardinality(PositionsOf(merchant_key_store, m)) <= 1
    /\ \A x \in DomainMerchantKeyStores, key \in MasterKeys, converts \in BOOLEAN :
           x.merchant_id \in StoredIds =>
               insert_merchant_key_store(merchant_key_store, x, key, converts)
                   = StoreOut(merchant_key_store, StoreErr("DuplicateValue"))
    /\ \A m \in MerchantIds \ StoredIds, key \in MasterKeys :
           get_merchant_key_store_by_merchant_id(merchant_key_store, m, key)
               = StoreOut(merchant_key_store, StoreErr("ValueNotFound"))

\* The entry a successful insert of x leaves is the one a get for x's
\* merchant id with key returns.
GetReturnsInserted(x, key) ==
    LET out == insert_merchant_key_store(merchant_key_store, x, x.key.encrypted[3], TRUE)
    IN  get_merchant_key_store_by_merchant_id(out.store, x.merchant_id, key).res = StoreOk(x)

\* C22 as stated: in every reachable state of the mock store there is at most
\* one entry per merchant id, a duplicate insert fails without a change, a get
\* for a merchant id that is not stored fails, and a get for a stored merchant
\* id returns the inserted entry.
C22_GetReturnsEntry ==
    /\ StoreKeepsOneEntryPerMerchant
    /\ \A x \in DomainMerchantKeyStores, key \in MasterKeys :
           x.merchant_id \notin StoredIds => GetReturnsInserted(x, key)

\* C22 amended: in every reachable state of the mock store there is at most
\* one entry per merchant id, a duplicate insert fails without a change, a get
\* for a merchant id that is not stored fails, and a get for a stored merchant
\* id returns the inserted entry when it is given the key the entry's key was
\* encrypted under, and DecryptionError for any other key.
C22_GetReturnsEntryUnderItsKey ==
    /\ StoreKeepsOneEntryPerMerchant
    /\ \A x \in DomainMerchantKeyStores, key \in MasterKeys :
           x.merchant_id \notin StoredIds =>
               IF key = x.key.encrypted[3]
               THEN GetReturnsInserted(x, key)
               ELSE get_merchant_key_store_by_merchant_id(
                        insert_merchant_key_store(
                            merchant_key_store, x, x.key.encrypted[3], TRUE).store,
                        x.merchant_id, key).res = StoreErr("DecryptionError")
    /\ \A i \in 1..Len(merchant_key_store), key \in MasterKeys :
           LET res == get_merchant_key_store_by_merchant_id(
                          merchant_key_store, merchant_key_store[i].merchant_id, key).res
           IN  IF key = merchant_key_store[i].key[3]
               THEN /\ res.err = "none"
                    /\ Conversion_convert(res.val) = merchant_key_store[i]
               ELSE res = StoreErr("DecryptionError")

\* C22 witness: a get has returned the entry of merchant1, which is the
\* second entry of a store of two merchants.
C22_Witness ==
    /\ store_ret.op = "get"
    /\ store_ret.res.err = "none"
    /\ Len(merchant_key_store) = 2
    /\ store_ret.res.val.merchant_id = merchant_key_store[2].merchant_id
    /\ store_ret.res.val.merchant_id = "merchant1"

\* The number of positions of seq that hold x.
CountIn(seq, x) == Cardinality({i \in 1..Len(seq) : seq[i] = x})

\* Every edge of B is listed once in the succs of its pred and once in the
\* preds of its succ and nowhere else, and the lists hold edges of B only.
WellLinked(B) ==
    /\ \A e \in Ids(B.edges) :
           /\ Get(B.edges, e).pred \in Ids(B.nodes)
           /\ Get(B.edges, e).succ \in Ids(B.nodes)
           /\ \A n \in Ids(B.nodes) :
                  /\ CountIn(Get(B.nodes, n).succs, e)
                         = IF Get(B.edges, e).pred = n THEN 1 ELSE 0
                  /\ CountIn(Get(B.nodes, n).preds, e)
                         = IF Get(B.edges, e).succ = n THEN 1 ELSE 0
    /\ \A n \in Ids(B.nodes) :
           /\ \A i \in 1..Len(Get(B.nodes, n).succs) :
                  /\ Get(B.nodes, n).succs[i] \in Ids(B.edges)
                  /\ Get(B.edges, Get(B.nodes, n).succs[i]).pred = n
           /\ \A i \in 1..Len(Get(B.nodes, n).preds) :
                  /\ Get(B.nodes, n).preds[i] \in Ids(B.edges)
                  /\ Get(B.edges, Get(B.nodes, n).preds[i]).succ = n

\* C23: in every reachable builder state, and after every construction call
\* made on it, each edge id appears exactly once in the succs of its pred node
\* and exactly once in the preds of its succ node and in no other list, and
\* every id in a preds or succs list is an edge of the arena with that node as
\* its succ or pred.
C23_EdgesListedOnce ==
    /\ WellLinked(builder)
    /\ \A o \in Outcomes : WellLinked(o.out.b)

\* C23 witness: make_edge has made an edge from node 0 to itself, listed once
\* in the node's succs and once in its preds.
C23_Witness ==
    /\ ret.op = "make_edge"
    /\ ret.res = Ok(0)
    /\ ret.changed
    /\ Get(builder.edges, 0).pred = 0
    /\ Get(builder.edges, 0).succ = 0
    /\ Get(builder.nodes, 0).succs = <<0>>
    /\ Get(builder.nodes, 0).preds = <<0>>

\* The edge index of B and its edge arena hold the same edges.
IndexAgrees(B) ==
    /\ \A e \in Ids(B.edges) :
           {k \in DOMAIN B.edges_map : B.edges_map[k] = e}
               = {<<Get(B.edges, e).pred, Get(B.edges, e).succ>>}
    /\ \A k \in DOMAIN B.edges_map : B.edges_map[k] \in Ids(B.edges)

\* C24: in every reachable builder state, and after every construction call
\* made on it, every edge of the arena is the value of exactly one index key,
\* the edge's (pred, succ), and every index entry is an edge of the arena.
C24_EdgeIndexAgrees ==
    /\ IndexAgrees(builder)
    /\ \A o \in Outcomes : IndexAgrees(o.out.b)

\* C24 witness: make_any_aggregator has made the edge from node 0 to the new
\* node 1 and indexed it under (0, 1).
C24_Witness ==
    /\ ret.op = "make_any_aggregator"
    /\ ret.res = Ok(1)
    /\ ret.changed
    /\ DOMAIN builder.edges_map = {<<0, 1>>}
    /\ builder.edges_map[<<0, 1>>] = 0

\* The value-dedup map of B and its node arena agree.
ValueMapAgrees(B) ==
    /\ DOMAIN B.value_map \subseteq NodeValues
    /\ \A v \in DOMAIN B.value_map : B.value_map[v] \in Ids(B.nodes)
    /\ \A v \in NodeValues, n \in Ids(B.nodes) :
           (v \in DOMAIN B.value_map /\ B.value_map[v] = n)
               = (Get(B.nodes, n).node_type = ValueType(v))
    /\ \A v \in DOMAIN B.value_map :
           Get(B.nodes, B.value_map[v]).node_type.tag = "Value"
    /\ \A v, w \in DOMAIN B.value_map : B.value_map[v] = B.value_map[w] => v = w

\* C25: in every reachable builder state, and after every construction call
\* made on it, the value map sends value v to node n iff node n exists and has
\* type Value(v); no aggregator node is in the map and no two values map to
\* one node.
C25_ValueMapAgrees ==
    /\ ValueMapAgrees(builder)
    /\ \A o \in Outcomes : ValueMapAgrees(o.out.b)

\* C25 witness: make_value_node has made a Value node next to an aggregator
\* node and a Value node of another value.
C25_Witness ==
    /\ ret.op = "make_value_node"
    /\ ret.changed
    /\ Len(builder.nodes) = 3
    /\ Cardinality(DOMAIN builder.value_map) = 2
    /\ \E n \in Ids(builder.nodes) : Get(builder.nodes, n).node_type.tag # "Value"

\* The node, info and metadata arenas of B have one length.
SameLength(B) ==
    /\ Len(B.node_info) = Len(B.nodes)
    /\ Len(B.node_metadata) = Len(B.nodes)

\* C26: in every reachable builder state, and after every construction call
\* made on it, failed calls included, the node arena, the node-info arena and
\* the node-metadata arena have the same length, and a call leaves the info
\* and metadata of the nodes that were there as they were.
C26_InfoAndMetadataAligned ==
    /\ SameLength(builder)
    /\ \A o \in Outcomes :
           /\ SameLength(o.out.b)
           /\ IsPrefix(builder.node_info, o.out.b.node_info)
           /\ IsPrefix(builder.node_metadata, o.out.b.node_metadata)

\* C26 witness: an aggregator constructor has failed after adding its node,
\* and the three arenas have two entries each.
C26_Witness ==
    /\ ret.op \in {"make_all_aggregator", "make_any_aggregator"}
    /\ ~IsOk(ret.res)
    /\ ret.changed
    /\ Len(builder.nodes) = 2
    /\ Len(builder.node_info) = 2
    /\ Len(builder.node_metadata) = 2

\* C27: in every reachable builder state (before an evaluation is called on its
\* graph), make_edge from an existing node to
\* itself, when no such edge is indexed, succeeds and lists the new edge in the
\* node's succs and preds; and make_edge(a, b) followed by make_edge(b, a), for
\* two existing nodes without an edge between them, both succeed and make two
\* distinct edges.
C27_CyclesAccepted ==
    \A a \in Ids(builder.nodes), b \in Ids(builder.nodes) :
        (eval = Idle /\ ~HasIndexedEdge(builder, a, b) /\ ~HasIndexedEdge(builder, b, a)) =>
            \A l1 \in Strengths \X Relations :
                LET o1 == make_edge(builder, a, b, l1[1], l1[2])
                    e1 == Len(builder.edges)
                IN  /\ o1.res = Ok(e1)
                    /\ Get(o1.b.edges, e1) =
                           [strength |-> l1[1], relation |-> l1[2], pred |-> a, succ |-> b]
                    /\ CountIn(Get(o1.b.nodes, a).succs, e1) = 1
                    /\ CountIn(Get(o1.b.nodes, b).preds, e1) = 1
                    /\ a # b =>
                           \A l2 \in Strengths \X Relations :
                               LET o2 == make_edge(o1.b, b, a, l2[1], l2[2])
                               IN  /\ o2.res = Ok(e1 + 1)
                                   /\ Get(o2.b.edges, e1) = Get(o1.b.edges, e1)
                                   /\ Get(o2.b.edges, e1 + 1) =
                                          [strength |-> l2[1], relation |-> l2[2],
                                           pred |-> b, succ |-> a]
                                   /\ Get(o2.b.nodes, a).preds =
                                          Append(Get(builder.nodes, a).preds, e1 + 1)
                                   /\ Get(o2.b.nodes, b).succs =
                                          Append(Get(builder.nodes, b).succs, e1 + 1)

\* C27 witness: the builder holds an edge from node 0 to node 1 and an edge
\* from node 1 to node 0.
C27_Witness ==
    /\ Len(builder.edges) = 2
    /\ Get(builder.edges, 0).pred = 0
    /\ Get(builder.edges, 0).succ = 1
    /\ Get(builder.edges, 1).pred = 1
    /\ Get(builder.edges, 1).succ = 0
    /\ Get(builder.nodes, 0).preds = <<1>>
    /\ Get(builder.nodes, 0).succs = <<0>>

\* C28: once one get_or_populate_redis call, whose loader read the data source,
\* and one redact_cache call, whose closure updated it, have both returned Ok,
\* the Redis entry of the key is absent or holds the data source's value.
C28_RedisFreshAfterBoth ==
    ( /\ getter.pc = "done" /\ getter.calls = 1 /\ ~getter.via_memory
      /\ getter.loader = "ok" /\ getter.result.err = "none"
      /\ redactor.pc = "done" /\ redactor.calls = 1
      /\ redactor.closure = "ok" /\ redactor.result.err = "none" )
    => (redis = NoEntry \/ redis.val = data_source)

\* The steps of the getter that belong to get_or_populate_redis.
InGetOrPopulateRedis == getter.pc \in {"redis_get", "load", "redis_set"}

\* get_or_populate_redis has returned to its caller.
RedisReturned == getter.read # "none" /\ ~InGetOrPopulateRedis

\* C29: a get_or_populate_redis call that read the key and deserialized it ran
\* no loader, wrote nothing and returned the Redis value; once the call has
\* returned, the loader ran exactly when the read failed with NotFound or
\* JsonDeserializationFailed, and a write was attempted exactly when the loader
\* succeeded; any other read error returned KVError without loader or write;
\* a failed loader returned its error without a write.
C29_Outcomes ==
    /\ getter.read = "Ok" =>
            /\ getter.loader = "none" /\ getter.set = "none"
            /\ getter.result = CacheOk(getter.data)
    /\ RedisReturned =>
            /\ getter.loader # "none"
                   <=> getter.read \in {"NotFound", "JsonDeserializationFailed"}
            /\ getter.set # "none" <=> getter.loader = "ok"
    /\ getter.read \notin {"none", "Ok", "NotFound", "JsonDeserializationFailed"} =>
            /\ getter.loader = "none" /\ getter.set = "none"
            /\ getter.result = CacheErr("KVError")
    /\ getter.loader = "failed" =>
            getter.set = "none" /\ getter.result = CacheErr("LoaderError")
    /\ getter.set = "ok" => getter.result = CacheOk(getter.data)
    /\ getter.set = "failed" => getter.result = CacheErr("KVError")

\* C29: the getter changes the Redis entry only in a call whose read failed with
\* NotFound or JsonDeserializationFailed and whose loader succeeded, and it
\* writes the loader's result.
C29_Writes ==
    (redis' # redis /\ getter' # getter) =>
        /\ getter.read \in {"NotFound", "JsonDeserializationFailed"}
        /\ getter.loader = "ok"
        /\ redis' = Entry(getter.T, getter.data)

C29_GetOrPopulateRedis == []C29_Outcomes /\ [][C29_Writes]_vars

\* A call found an entry of another type, loaded the value and replaced it.
C29_Witness ==
    /\ getter.read = "JsonDeserializationFailed"
    /\ getter.set = "ok"
    /\ redis = Entry(getter.T, getter.data)
    /\ getter.pc = "done"

\* C30: in a redact_cache call nothing is removed before the closure has
\* succeeded; a failed closure ends the call with its error and without a
\* removal; the Redis key is deleted only after the in-memory entry, when a
\* cache was given, has been removed; and the call returns the closure's result
\* only when the Redis delete succeeded.
C30_Outcomes ==
    /\ redactor.closure # "ok" =>
            ~redactor.mem_removed /\ ~redactor.redis_deleted
    /\ redactor.closure = "failed" =>
            redactor.pc = "done" /\ redactor.result = CacheErr("ClosureError")
    /\ redactor.redis_deleted =>
            (redactor.given => redactor.mem_removed)
    /\ (redactor.pc = "done" /\ redactor.result.err = "none") =>
            redactor.redis_deleted /\ redactor.result = CacheOk(redactor.data)

\* C30: a step of the redactor that changes the in-memory entry or the Redis
\* entry follows a successful closure, and the step that changes the Redis
\* entry leaves the in-memory entry alone and follows the removal.
C30_Removals ==
    (redactor' # redactor /\ (redis' # redis \/ in_memory' # in_memory)) =>
        /\ redactor.closure = "ok"
        /\ redis' # redis =>
               /\ in_memory' = in_memory
               /\ redactor.given => redactor.mem_removed

C30_RedactCache == []C30_Outcomes /\ [][C30_Removals]_vars

\* An entry pushed by get_or_populate_in_memory has been removed by a
\* redact_cache call that then deleted the Redis key and returned Ok.
C30_Witness ==
    /\ getter.pushed
    /\ in_memory = NoEntry
    /\ redactor.pc = "done"
    /\ redactor.given /\ redactor.mem_removed /\ redactor.redis_deleted
    /\ redactor.result = CacheOk(redactor.data)

\* C31: in a publish_and_redact or publish_and_redact_multiple call no message
\* is published before the closure has succeeded; a failed closure ends the
\* call with its error, with the data source as it was and nothing published;
\* a call that returns RedisError or KVError from publishing has already
\* changed the data source; and a call returns the closure's result only when
\* every key was published.
C31_Outcomes ==
    /\ publisher.closure # "ok" => publisher.published = {}
    /\ publisher.closure = "failed" =>
            /\ publisher.pc = "done"
            /\ publisher.result = CacheErr("ClosureError")
            /\ data_source = publisher.before
    /\ (publisher.pc = "done" /\ publisher.result.err \in {"RedisError", "KVError"}) =>
            /\ publisher.closure = "ok"
            /\ data_source = publisher.before + 1
    /\ (publisher.pc = "done" /\ publisher.result.err = "none") =>
            /\ publisher.published = publisher.keys
            /\ publisher.result = CacheOk(publisher.data)

\* C31: a step that publishes a message follows a successful closure of the
\* running call and publishes one of the call's keys.
C31_Publishes ==
    channel' # channel =>
        /\ publisher.closure = "ok"
        /\ \E key \in publisher.keys : channel' = [channel EXCEPT ![key] = @ + 1]

C31_PublishAfterClosure == []C31_Outcomes /\ [][C31_Publishes]_vars

\* A publish_and_redact_multiple call updated the data source, published one
\* key, failed on the other and returned KVError.
C31_Witness ==
    /\ publisher.pc = "done"
    /\ publisher.multiple
    /\ publisher.result = CacheErr("KVError")
    /\ Cardinality(publisher.published) = 1
    /\ data_source = publisher.before + 1

\* The last run loaded the payment method and found a status other than
\* prev_status.
RunFoundOtherStatus == run.loaded /\ run.stored # PrevStatus

\* The last run neither updated the payment method nor scheduled a retry.
NoUpdateNoRetry ==
    /\ ~run.updated
    /\ \A i \in 1..Len(run.calls) : run.calls[i].call.op # "retry_process"
    /\ process.retry_count = run.retry_count

\* C32: a run that finds a stored status other than prev_status makes one
\* scheduler call, finish with PROCESS_ALREADY_COMPLETED, which finishes the
\* process with that business status (unless the call itself returns an error,
\* which the run returns); it makes no update and schedules no retry.
C32_Outcome ==
    RunFoundOtherStatus =>
        /\ NoUpdateNoRetry
        /\ Len(run.calls) = 1
        /\ run.calls[1].call = Finish("PROCESS_ALREADY_COMPLETED")
        /\ run.calls[1].ok <=> run.res = "Ok"
        /\ run.calls[1].ok =>
               /\ process.status = "Finish"
               /\ process.business_status = "PROCESS_ALREADY_COMPLETED"
        /\ ~run.calls[1].ok =>
               /\ run.res = "SchedulerError"
               /\ process.business_status = "Pending"

\* C32: the step of such a run leaves the stored status as it found it.
C32_Step ==
    (run' # run /\ run'.loaded /\ run'.stored # PrevStatus) =>
        payment_method' = payment_method

C32_OtherStatusFinishes == []C32_Outcome /\ [][C32_Step]_vars

\* A run found the payment method Active and finished the process.
C32_Witness ==
    /\ run.loaded
    /\ run.stored = "Active"
    /\ run.res = "Ok"
    /\ process.business_status = "PROCESS_ALREADY_COMPLETED"

\* The one scheduler action of a run that attempted the status update: finish
\* with COMPLETED_BY_PT iff the update succeeded; otherwise retry_process at
\* the schedule time (start_after at retry_count 0, else the delay for
\* retry_count + 1), or finish with RETRIES_EXCEEDED when there is none.
OneActionAfterUpdate ==
    LET delta == IF run.retry_count = 0 THEN Some(StartAfter)
                 ELSE get_delay(run.retry_count + 1, Frequencies)
    IN  /\ Len(run.calls) = 1
        /\ (run.calls[1].call = Finish("COMPLETED_BY_PT")) <=> run.updated
        /\ ~run.updated =>
               run.calls[1].call = IF delta.some THEN Retry(delta)
                                   ELSE Finish("RETRIES_EXCEEDED")
        /\ process = IF run.calls[1].call.op = "retry_process"
                     THEN [ status |-> "Pending", business_status |-> "Pending",
                            retry_count |-> run.retry_count + 1,
                            schedule_delta |-> delta ]
                     ELSE [ process EXCEPT
                              !.status = "Finish",
                              !.business_status = run.calls[1].call.business_status,
                              !.retry_count = run.retry_count ]

\* C33 as stated: every run that loaded the payment method and whose scheduler
\* call succeeded made exactly that one action.
C33_OneActionOnceLoaded ==
    (run.loaded /\ run.res = "Ok") => OneActionAfterUpdate

\* C33 amended: every run that loaded the payment method, found it in
\* prev_status and whose scheduler call succeeded made exactly that one action.
C33_OneActionOnceLoadedInPrevStatus ==
    (run.loaded /\ run.stored = PrevStatus /\ run.res = "Ok") => OneActionAfterUpdate

\* The update failed in a run past the delay table: the run finished the
\* process with RETRIES_EXCEEDED.
C33_Witness ==
    /\ run.loaded /\ run.stored = PrevStatus /\ run.res = "Ok"
    /\ ~run.updated
    /\ run.retry_count = MaxDelayCount
    /\ run.calls = << [call |-> Finish("RETRIES_EXCEEDED"), ok |-> TRUE] >>
    /\ process.business_status = "RETRIES_EXCEEDED"

FinishedBusinessStatuses ==
    {"COMPLETED_BY_PT", "PROCESS_ALREADY_COMPLETED", "RETRIES_EXCEEDED"}

\* C34: the process eventually reaches a finished business status, the
\* scheduler running every pending entry, runs whose loads fail included.
C34_EventuallyFinished ==
    <>(process.business_status \in FinishedBusinessStatuses)

\* The last step was a run of start_tokenize_data_workflow that called
\* delete_tokenized_data.
TokenizeRan ==
    /\ vault_ret.op = "start_tokenize_data_workflow"
    /\ vault_ret.run.delete # "none"

\* C35: a run of start_tokenize_data_workflow calls finish with
\* COMPLETED_BY_PT only when it deleted a key that was present; when the delete
\* fails, a key already absent included, its one scheduler call is
\* retry_process at the schedule time for retry_count + 1 when there is one and
\* finish with RETRIES_EXCEEDED when there is none; the call takes effect on the
\* process unless the call itself returns an error.
C35_TokenizeWorkflow ==
    TokenizeRan =>
        LET r == vault_ret.run
            delta == get_delay(r.retry_count + 1, Frequencies)
            expected == IF r.delete = "Ok" THEN Finish("COMPLETED_BY_PT")
                        ELSE IF delta.some THEN Retry(delta)
                        ELSE Finish("RETRIES_EXCEEDED")
        IN  /\ r.delete = "Ok" <=> r.deleted
            /\ r.deleted => r.present
            /\ Len(r.calls) = 1
            /\ r.calls[1].call = expected
            /\ r.calls[1].ok <=> r.res = "Ok"
            /\ r.calls[1].ok =>
                   tokenize_tracker =
                       IF expected.op = "retry_process"
                       THEN [ status |-> "Pending", business_status |-> "Pending",
                              retry_count |-> r.retry_count + 1,
                              schedule_delta |-> delta ]
                       ELSE [ tokenize_tracker EXCEPT
                                !.status = "Finish",
                                !.business_status = expected.business_status,
                                !.retry_count = r.retry_count ]
            /\ tokenize_tracker.business_status = "COMPLETED_BY_PT" => r.deleted

\* A run found the key already absent and rescheduled the process.
C35_Witness ==
    /\ TokenizeRan
    /\ ~vault_ret.run.present
    /\ vault_ret.run.delete = "Err"
    /\ vault_ret.run.calls[1].call.op = "retry_process"
    /\ vault_ret.run.calls[1].ok
    /\ tokenize_tracker.retry_count = vault_ret.run.retry_count + 1

\* C36: in every reachable state with an entry under the locker key, a
\* create_tokenize call that reaches Redis returns Ok(lookup_key) and leaves
\* the entry, payload and expiry, as it was; a get_tokenized_data call that
\* follows it with the encryption key of the first write returns the first
\* payload, and with another key an error.
C36_CreateNeverOverwrites ==
    locker # NoLockerEntry =>
        \A value1 \in LockerValues, encryption_key \in EncryptionKeys,
           in \in RedisInputs :
            LET c == create_tokenize(locker, value1, encryption_key, in)
            IN  /\ c.locker = locker
                /\ (in.conn /\ in.redis) =>
                       /\ c.res = VaultOk("lookup_key")
                       /\ \A key \in EncryptionKeys :
                              LET g == get_tokenized_data(c.locker, key,
                                                          [conn |-> TRUE, redis |-> TRUE])
                              IN  IF key = locker.payload[2]
                                  THEN g.res = VaultOk(locker.payload[3])
                                  ELSE g.res.err = "InternalServerError"

\* C36: a create_tokenize step on an existing entry changes nothing of it.
C36_Step ==
    (vault_ret'.op = "create_tokenize" /\ vault_ret' # vault_ret
       /\ locker # NoLockerEntry) => locker' = locker

C36_NeverOverwrites == []C36_CreateNeverOverwrites /\ [][C36_Step]_vars

\* A create_tokenize call under key2 returned Ok while the entry holds the
\* payload written under key1, one tick closer to its expiry.
C36_Witness ==
    /\ vault_ret.op = "create_tokenize"
    /\ vault_ret.res = VaultOk("lookup_key")
    /\ vault_ret.key = "key2"
    /\ locker.payload = encode_message("key1", "card1")
    /\ locker.ttl < LockerExpiry

====
